---- MODULE Spec2Model ----
(***************************************************************************)
(* CivicVoice: the in-memory store (MemStorage, server/storage.ts), its    *)
(* progress-status state machine, and the HTTP handlers that drive it      *)
(* (server/routes.ts).                                                     *)
(*                                                                         *)
(* A Map<number, T> is a function from its set of keys to records; string  *)
(* templates are tuples <<fixed text, interpolated value>>.  A Date is the *)
(* number of milliseconds between the construction of the store and it.    *)
(***************************************************************************)
EXTENDS Integers, Sequences, FiniteSets, TLC

VARIABLES
    users,        \* MemStorage.users      : Map<number, User>
    projects,     \* MemStorage.projects   : Map<number, Project>
    upvotes,      \* MemStorage.upvotes    : Map<number, Upvote>
    emails,       \* MemStorage.emails     : Map<number, Email>
    activities,   \* MemStorage.activities : Map<number, Activity>
    comments,     \* MemStorage.comments   : Map<number, Comment>
    userId,       \* next user id
    projectId,    \* next project id
    upvoteId,     \* next upvote id
    emailId,      \* next email id
    activityId,   \* next activity id
    commentId,    \* next comment id
    now,          \* Date.now()
    response,     \* the last HTTP response written by a route handler
    dps,          \* the last direct evaluation of determineProgressStatus
    ret,          \* the last call looked at: what was called, with what, the value
    dispatch,     \* the messages the last HTTP request handed to sendEmail
    calls,        \* the asynchronous calls in progress: where each one stands
    wizard        \* IssueSubmissionModal: its props, state and mutations

storeVars == <<users, projects, upvotes, emails, activities, comments,
               userId, projectId, upvoteId, emailId, activityId, commentId>>
vars == <<users, projects, upvotes, emails, activities, comments,
          userId, projectId, upvoteId, emailId, activityId, commentId,
          now, response, dps, ret, dispatch, calls, wizard>>

---------------------------------------------------------------------------
(* Bounds of the model.                                                    *)

MaxUserId == 1
MaxProjectId == 4
MaxUpvoteId == 2
MaxEmailId == 1
MaxCommentId == 4
MaxActivityId == 5
MaxCount == 60
MaxStatsProjects == 40
MaxNow == 2
MaxCalls == 2

---------------------------------------------------------------------------
(* Values.                                                                 *)

NULL == "null"

ProgressStatuses ==
    <<"idea_submitted", "community_support", "email_campaign_active",
      "official_acknowledgment", "planning_stage", "implementation", "completed">>

StatusSet == {ProgressStatuses[i] : i \in DOMAIN ProgressStatuses}

\* position of a status in the promotion order
StatusRank(s) == CHOOSE i \in DOMAIN ProgressStatuses : ProgressStatuses[i] = s

LateStatuses == {"official_acknowledgment", "planning_stage", "implementation", "completed"}

EarlyStatuses == StatusSet \ LateStatuses

\* Map.set(k, v)
MapSet(m, k, v) == [x \in (DOMAIN m) \cup {k} |-> IF x = k THEN v ELSE m[x]]

\* { ...base, ...updates }
Spread(base, updates) ==
    [f \in (DOMAIN base) \cup (DOMAIN updates) |->
        IF f \in DOMAIN updates THEN updates[f] ELSE base[f]]

\* x || d  for a nullable string x
OrElse(x, d) == IF x = NULL \/ x = "" THEN d ELSE x

\* the store as one value, so that operations compose as they call each other
\* (now is the clock the operations read; no operation sets it)
Store ==
    [users |-> users, projects |-> projects, upvotes |-> upvotes, emails |-> emails,
     activities |-> activities, comments |-> comments,
     userId |-> userId, projectId |-> projectId, upvoteId |-> upvoteId,
     emailId |-> emailId, activityId |-> activityId, commentId |-> commentId,
     now |-> now]

SetStore(S) ==
    /\ users' = S.users
    /\ userId' = S.userId
    /\ projects' = S.projects
    /\ upvotes' = S.upvotes
    /\ emails' = S.emails
    /\ activities' = S.activities
    /\ comments' = S.comments
    /\ projectId' = S.projectId
    /\ upvoteId' = S.upvoteId
    /\ emailId' = S.emailId
    /\ activityId' = S.activityId
    /\ commentId' = S.commentId

---------------------------------------------------------------------------
(* MemStorage: the operations, as functions from store to store.           *)

\* createActivity storing under the current id without advancing the counter
createActivity_NoIncrement(S, insertActivity) ==
    LET id == S.activityId
        activity == [id |-> id,
                     projectId |-> insertActivity.projectId,
                     activityType |-> insertActivity.activityType,
                     actorName |-> OrElse(insertActivity.actorName, NULL),
                     description |-> insertActivity.description,
                     createdAt |-> S.now]
    IN [S EXCEPT !.activities = MapSet(S.activities, id, activity)]

\* createActivity keeping the feed at four activities: the oldest one goes
createActivity_CapFeed(S, insertActivity) ==
    LET id == S.activityId
        activity == [id |-> id,
                     projectId |-> insertActivity.projectId,
                     activityType |-> insertActivity.activityType,
                     actorName |-> OrElse(insertActivity.actorName, NULL),
                     description |-> insertActivity.description,
                     createdAt |-> S.now]
        stored == MapSet(S.activities, id, activity)
    IN [S EXCEPT !.activityId = id + 1,
                 !.activities = IF id > 4
                                THEN [k \in (DOMAIN stored) \ {id - 4} |-> stored[k]]
                                ELSE stored]

\* createActivity(insertActivity)
createActivity(S, insertActivity) ==
    LET id == S.activityId
        activity == [id |-> id,
                     projectId |-> insertActivity.projectId,
                     activityType |-> insertActivity.activityType,
                     actorName |-> OrElse(insertActivity.actorName, NULL),
                     description |-> insertActivity.description,
                     createdAt |-> S.now]
    IN [S EXCEPT !.activityId = id + 1,
                 !.activities = MapSet(S.activities, id, activity)]

\* determineProgressStatus testing the upvote threshold before the email one
determineProgressStatus_UpvotesFirst(nUpvotes, nEmailsSent, currentStatus) ==
    IF currentStatus \in {"official_acknowledgment", "planning_stage",
                          "implementation", "completed"}
    THEN currentStatus
    ELSE IF nUpvotes >= 25 THEN "community_support"
    ELSE IF nEmailsSent >= 50 THEN "email_campaign_active"
    ELSE "idea_submitted"

\* determineProgressStatus without its "don't downgrade" test
determineProgressStatus_NoGuard(nUpvotes, nEmailsSent, currentStatus) ==
    IF nEmailsSent >= 50 THEN "email_campaign_active"
    ELSE IF nUpvotes >= 25 THEN "community_support"
    ELSE "idea_submitted"

\* determineProgressStatus without its community_support branch
determineProgressStatus_NoCommunity(nUpvotes, nEmailsSent, currentStatus) ==
    IF currentStatus \in {"official_acknowledgment", "planning_stage",
                          "implementation", "completed"}
    THEN currentStatus
    ELSE IF nEmailsSent >= 50 THEN "email_campaign_active"
    ELSE "idea_submitted"

\* determineProgressStatus answering the email threshold with the next status up
determineProgressStatus_Promote(nUpvotes, nEmailsSent, currentStatus) ==
    IF currentStatus \in {"official_acknowledgment", "planning_stage",
                          "implementation", "completed"}
    THEN currentStatus
    ELSE IF nEmailsSent >= 50 THEN "official_acknowledgment"
    ELSE IF nUpvotes >= 25 THEN "community_support"
    ELSE "idea_submitted"

\* determineProgressStatus(upvotes, emailsSent, currentStatus)
determineProgressStatus(nUpvotes, nEmailsSent, currentStatus) ==
    IF currentStatus \in {"official_acknowledgment", "planning_stage",
                          "implementation", "completed"}
    THEN currentStatus
    ELSE IF nEmailsSent >= 50 THEN "email_campaign_active"
    ELSE IF nUpvotes >= 25 THEN "community_support"
    ELSE "idea_submitted"

\* statusWasUpdated without the comparison with the stored status
statusWasUpdated_NoCompare(project, updates) ==
    /\ "progressStatus" \in DOMAIN updates
    /\ updates.progressStatus # ""

\* the condition under which updateProject records a status_change
statusWasUpdated(project, updates) ==
    /\ "progressStatus" \in DOMAIN updates
    /\ updates.progressStatus # ""
    /\ updates.progressStatus # project.progressStatus

\* updateProject spreading the updates first: { ...updates, ...project }
updateProject_ProjectLast(S, id, updates) ==
    IF id \notin DOMAIN S.projects THEN S
    ELSE LET project == S.projects[id]
             updatedProject == Spread(updates, project)
             S1 == [S EXCEPT !.projects = MapSet(S.projects, id, updatedProject)]
         IN IF statusWasUpdated(project, updates)
            THEN createActivity(S1,
                    [projectId |-> id,
                     activityType |-> "status_change",
                     actorName |-> "System",
                     description |-> <<"Project status updated to: ", updates.progressStatus>>])
            ELSE S1

\* updateProject(id, updates)
updateProject(S, id, updates) ==
    IF id \notin DOMAIN S.projects THEN S
    ELSE LET project == S.projects[id]
             updatedProject == Spread(project, updates)
             S1 == [S EXCEPT !.projects = MapSet(S.projects, id, updatedProject)]
         IN IF statusWasUpdated(project, updates)
            THEN createActivity(S1,
                    [projectId |-> id,
                     activityType |-> "status_change",
                     actorName |-> "System",
                     description |-> <<"Project status updated to: ", updates.progressStatus>>])
            ELSE S1

\* createProject spreading the input over the fields it sets
createProject_InputLast(S, insertProject) ==
    LET id == S.projectId
        project == Spread([id |-> id,
                           upvotes |-> 0,
                           emailsSent |-> 0,
                           progressStatus |-> "idea_submitted",
                           createdAt |-> S.now,
                           createdBy |-> OrElse(insertProject.createdBy, NULL)],
                          insertProject)
        S1 == [S EXCEPT !.projectId = id + 1,
                        !.projects = MapSet(S.projects, id, project)]
    IN createActivity(S1,
          [projectId |-> id,
           activityType |-> "project_created",
           actorName |-> "Anonymous User",
           description |-> <<"New issue submitted: ", project.title>>])

\* createProject(insertProject)
createProject(S, insertProject) ==
    LET id == S.projectId
        project == Spread(insertProject,
                          [id |-> id,
                           upvotes |-> 0,
                           emailsSent |-> 0,
                           progressStatus |-> "idea_submitted",
                           createdAt |-> S.now,
                           createdBy |-> OrElse(insertProject.createdBy, NULL)])
        S1 == [S EXCEPT !.projectId = id + 1,
                        !.projects = MapSet(S.projects, id, project)]
    IN createActivity(S1,
          [projectId |-> id,
           activityType |-> "project_created",
           actorName |-> "Anonymous User",
           description |-> <<"New issue submitted: ", project.title>>])

\* upvoteUpdates evaluating the status on the count before the increment
upvoteUpdates_PreIncrement(project) ==
    [upvotes |-> project.upvotes + 1,
     progressStatus |-> determineProgressStatus(project.upvotes,
                                                project.emailsSent,
                                                project.progressStatus)]

\* the updates createUpvote passes to updateProject
upvoteUpdates(project) ==
    [upvotes |-> project.upvotes + 1,
     progressStatus |-> determineProgressStatus(project.upvotes + 1,
                                                project.emailsSent,
                                                project.progressStatus)]

\* createUpvote(insertUpvote)
createUpvote(S, insertUpvote) ==
    LET id == S.upvoteId
        upvote == [id |-> id,
                   projectId |-> insertUpvote.projectId,
                   ipAddress |-> insertUpvote.ipAddress,
                   userId |-> OrElse(insertUpvote.userId, NULL),
                   createdAt |-> S.now]
        S1 == [S EXCEPT !.upvoteId = id + 1,
                        !.upvotes = MapSet(S.upvotes, id, upvote)]
    IN IF upvote.projectId \in DOMAIN S1.projects
       THEN LET project == S1.projects[upvote.projectId]
                S2 == updateProject(S1, project.id, upvoteUpdates(project))
            IN createActivity(S2,
                  [projectId |-> project.id,
                   activityType |-> "upvote",
                   actorName |-> "Anonymous User",
                   description |-> <<"Someone upvoted: ", project.title>>])
       ELSE S1

\* hasUserUpvoted comparing the stored userId, not the stored ipAddress
hasUserUpvoted_ByUser(S, pid, ipAddress) ==
    \E k \in DOMAIN S.upvotes :
        S.upvotes[k].projectId = pid /\ S.upvotes[k].userId = ipAddress

\* hasUserUpvoted(projectId, ipAddress)
hasUserUpvoted(S, pid, ipAddress) ==
    \E k \in DOMAIN S.upvotes :
        S.upvotes[k].projectId = pid /\ S.upvotes[k].ipAddress = ipAddress

\* the updates createEmail passes to updateProject
emailUpdates(project) ==
    [emailsSent |-> project.emailsSent + 1,
     progressStatus |-> determineProgressStatus(project.upvotes,
                                                project.emailsSent + 1,
                                                project.progressStatus)]

\* createEmail(insertEmail)
createEmail(S, insertEmail) ==
    LET id == S.emailId
        email == [id |-> id,
                  projectId |-> insertEmail.projectId,
                  senderEmail |-> OrElse(insertEmail.senderEmail, NULL),
                  senderName |-> OrElse(insertEmail.senderName, NULL),
                  customContent |-> OrElse(insertEmail.customContent, NULL),
                  sentAt |-> S.now]
        S1 == [S EXCEPT !.emailId = id + 1,
                        !.emails = MapSet(S.emails, id, email)]
    IN IF email.projectId \in DOMAIN S1.projects
       THEN LET project == S1.projects[email.projectId]
                S2 == updateProject(S1, project.id, emailUpdates(project))
            IN createActivity(S2,
                  [projectId |-> project.id,
                   activityType |-> "email_sent",
                   actorName |-> OrElse(email.senderName, "Anonymous User"),
                   description |-> <<"Email sent regarding: ", project.title>>])
       ELSE S1

\* createComment storing the comment and recording nothing
createComment_NoActivity(S, insertComment) ==
    LET id == S.commentId
        comment == [id |-> id,
                    projectId |-> insertComment.projectId,
                    text |-> insertComment.text,
                    commenterName |-> insertComment.commenterName,
                    createdAt |-> S.now]
    IN [S EXCEPT !.commentId = id + 1,
                 !.comments = MapSet(S.comments, id, comment)]

\* createComment(insertComment)
createComment(S, insertComment) ==
    LET id == S.commentId
        comment == [id |-> id,
                    projectId |-> insertComment.projectId,
                    text |-> insertComment.text,
                    commenterName |-> insertComment.commenterName,
                    createdAt |-> S.now]
        S1 == [S EXCEPT !.commentId = id + 1,
                        !.comments = MapSet(S.comments, id, comment)]
        title == IF comment.projectId \in DOMAIN S1.projects
                 THEN OrElse(S1.projects[comment.projectId].title, "Unknown Project")
                 ELSE "Unknown Project"
    IN createActivity(S1,
          [projectId |-> comment.projectId,
           activityType |-> "comment_added",
           actorName |-> comment.commenterName,
           description |-> <<"New comment on project: ", title>>])

---------------------------------------------------------------------------
(* Strings, arrays.                                                        *)

\* the characters of the texts that occur in the model
Chars(s) ==
    CASE s = "Crosswalk Needed at Lincoln & 5th Ave" ->
            <<"C", "r", "o", "s", "s", "w", "a", "l", "k", " ", "N", "e",
            "e", "d", "e", "d", " ", "a", "t", " ", "L", "i", "n", "c", "o",
            "l", "n", " ", "&", " ", "5", "t", "h", " ", "A", "v", "e">>
      [] s = "Dangerous intersection with high pedestrian traffic and no safe crossing." ->
            <<"D", "a", "n", "g", "e", "r", "o", "u", "s", " ", "i", "n",
            "t", "e", "r", "s", "e", "c", "t", "i", "o", "n", " ", "w", "i",
            "t", "h", " ", "h", "i", "g", "h", " ", "p", "e", "d", "e", "s",
            "t", "r", "i", "a", "n", " ", "t", "r", "a", "f", "f", "i", "c",
            " ", "a", "n", "d", " ", "n", "o", " ", "s", "a", "f", "e", " ",
            "c", "r", "o", "s", "s", "i", "n", "g", ".">>
      [] s = "Lincoln & 5th Ave" ->
            <<"L", "i", "n", "c", "o", "l", "n", " ", "&", " ", "5", "t",
            "h", " ", "A", "v", "e">>
      [] s = "Broken Sidewalk on Oak Street" ->
            <<"B", "r", "o", "k", "e", "n", " ", "S", "i", "d", "e", "w",
            "a", "l", "k", " ", "o", "n", " ", "O", "a", "k", " ", "S", "t",
            "r", "e", "e", "t">>
      [] s = "Multiple large cracks making it difficult for wheelchair access." ->
            <<"M", "u", "l", "t", "i", "p", "l", "e", " ", "l", "a", "r",
            "g", "e", " ", "c", "r", "a", "c", "k", "s", " ", "m", "a", "k",
            "i", "n", "g", " ", "i", "t", " ", "d", "i", "f", "f", "i", "c",
            "u", "l", "t", " ", "f", "o", "r", " ", "w", "h", "e", "e", "l",
            "c", "h", "a", "i", "r", " ", "a", "c", "c", "e", "s", "s", ".">>
      [] s = "Oak Street" ->
            <<"O", "a", "k", " ", "S", "t", "r", "e", "e", "t">>
      [] s = "Large Pothole on Main Street" ->
            <<"L", "a", "r", "g", "e", " ", "P", "o", "t", "h", "o", "l",
            "e", " ", "o", "n", " ", "M", "a", "i", "n", " ", "S", "t", "r",
            "e", "e", "t">>
      [] s = "Deep pothole causing vehicle damage and traffic backup during rush hours." ->
            <<"D", "e", "e", "p", " ", "p", "o", "t", "h", "o", "l", "e",
            " ", "c", "a", "u", "s", "i", "n", "g", " ", "v", "e", "h", "i",
            "c", "l", "e", " ", "d", "a", "m", "a", "g", "e", " ", "a", "n",
            "d", " ", "t", "r", "a", "f", "f", "i", "c", " ", "b", "a", "c",
            "k", "u", "p", " ", "d", "u", "r", "i", "n", "g", " ", "r", "u",
            "s", "h", " ", "h", "o", "u", "r", "s", ".">>
      [] s = "Main Street & Broadway" ->
            <<"M", "a", "i", "n", " ", "S", "t", "r", "e", "e", "t", " ",
            "&", " ", "B", "r", "o", "a", "d", "w", "a", "y">>
      [] s = "Dark Street Light on Elm" ->
            <<"D", "a", "r", "k", " ", "S", "t", "r", "e", "e", "t", " ",
            "L", "i", "g", "h", "t", " ", "o", "n", " ", "E", "l", "m">>
      [] s = "The lamp at the corner has been out for weeks." ->
            <<"T", "h", "e", " ", "l", "a", "m", "p", " ", "a", "t", " ",
            "t", "h", "e", " ", "c", "o", "r", "n", "e", "r", " ", "h", "a",
            "s", " ", "b", "e", "e", "n", " ", "o", "u", "t", " ", "f", "o",
            "r", " ", "w", "e", "e", "k", "s", ".">>
      [] s = "Elm Street" ->
            <<"E", "l", "m", " ", "S", "t", "r", "e", "e", "t">>
      [] s = "" ->
            <<>>
      [] s = "oak" ->
            <<"o", "a", "k">>
      [] s = "OAK" ->
            <<"O", "A", "K">>
      [] s = "Street" ->
            <<"S", "t", "r", "e", "e", "t">>
      [] s = "wheelchair" ->
            <<"w", "h", "e", "e", "l", "c", "h", "a", "i", "r">>
      [] s = "broadway" ->
            <<"b", "r", "o", "a", "d", "w", "a", "y">>
      [] s = "5th ave" ->
            <<"5", "t", "h", " ", "a", "v", "e">>
      [] s = "canal" ->
            <<"c", "a", "n", "a", "l">>
      [] s = "Dana" ->
            <<"D", "a", "n", "a">>
      [] s = "dana" ->
            <<"d", "a", "n", "a">>
      [] s = "DANA" ->
            <<"D", "A", "N", "A">>
      [] s = "lee" ->
            <<"l", "e", "e">>
      [] s = "crosswalk installation" ->
            <<"c", "r", "o", "s", "s", "w", "a", "l", "k", " ", "i", "n", "s",
            "t", "a", "l", "l", "a", "t", "i", "o", "n">>
      [] s = "pothole repair" ->
            <<"p", "o", "t", "h", "o", "l", "e", " ", "r", "e", "p", "a", "i",
            "r">>
      [] s = "sidewalk repair" ->
            <<"s", "i", "d", "e", "w", "a", "l", "k", " ", "r", "e", "p", "a",
            "i", "r">>
      [] s = "street light installation" ->
            <<"s", "t", "r", "e", "e", "t", " ", "l", "i", "g", "h", "t", " ",
            "i", "n", "s", "t", "a", "l", "l", "a", "t", "i", "o", "n">>
      [] s = "infrastructure issue" ->
            <<"i", "n", "f", "r", "a", "s", "t", "r", "u", "c", "t", "u", "r",
            "e", " ", "i", "s", "s", "u", "e">>

UpperCaseLetters ==
    <<"A", "B", "C", "D", "E", "F", "G", "H", "I", "J", "K", "L", "M",
      "N", "O", "P", "Q", "R", "S", "T", "U", "V", "W", "X", "Y", "Z">>

LowerCaseLetters ==
    <<"a", "b", "c", "d", "e", "f", "g", "h", "i", "j", "k", "l", "m",
      "n", "o", "p", "q", "r", "s", "t", "u", "v", "w", "x", "y", "z">>

\* the lower-case letter of each upper-case letter
LowerCaseOf ==
    [c \in {UpperCaseLetters[u] : u \in DOMAIN UpperCaseLetters} |->
        LowerCaseLetters[CHOOSE u \in DOMAIN UpperCaseLetters : UpperCaseLetters[u] = c]]

\* toLowerCase leaving every character as it is
toLowerCase_Identity(cs) == cs

\* String.prototype.toLowerCase, on the characters of a string
toLowerCase(cs) ==
    [i \in DOMAIN cs |-> IF cs[i] \in DOMAIN LowerCaseOf THEN LowerCaseOf[cs[i]] ELSE cs[i]]

\* String.prototype.includes, on the characters of two strings
includes(cs, part) ==
    \E i \in 0..(Len(cs) - Len(part)) : SubSeq(cs, i + 1, i + Len(part)) = part

RECURSIVE KeysInOrder(_)
\* the keys of a Map in insertion order: ids are inserted in increasing order
KeysInOrder(keys) ==
    IF keys = {} THEN <<>>
    ELSE LET k == CHOOSE x \in keys : \A y \in keys : x <= y
         IN <<k>> \o KeysInOrder(keys \ {k})

\* Array.from(map.values())
ArrayFromValues(m) ==
    LET ks == KeysInOrder(DOMAIN m) IN [i \in DOMAIN ks |-> m[ks[i]]]

RECURSIVE InsertDescending(_, _, _)
\* x put into an array sorted by field, descending, behind the elements that
\* compare equal to it
InsertDescending(x, sorted, field) ==
    IF sorted = <<>> THEN <<x>>
    ELSE IF Head(sorted)[field] >= x[field]
         THEN <<Head(sorted)>> \o InsertDescending(x, Tail(sorted), field)
         ELSE <<x>> \o sorted

RECURSIVE SortInto(_, _, _)
SortInto(array, sorted, field) ==
    IF array = <<>> THEN sorted
    ELSE SortInto(Tail(array), InsertDescending(Head(array), sorted, field), field)

\* the array left in the order of the Map
SortDescending_Unsorted(array, field) == array

\* array.sort((a, b) => b[field] - a[field]): the sort is stable
SortDescending(array, field) == SortInto(array, <<>>, field)

\* array.slice(0, limit)
SliceFromStart(array, limit) ==
    IF limit >= 0
    THEN SubSeq(array, 1, IF limit < Len(array) THEN limit ELSE Len(array))
    ELSE SubSeq(array, 1, IF Len(array) + limit > 0 THEN Len(array) + limit ELSE 0)

\* array.find(test), undefined when no element passes; passes[i] is test(array[i])
ArrayFind(array, passes) ==
    LET passing == {i \in DOMAIN array : passes[i]}
    IN IF passing = {} THEN [found |-> FALSE]
       ELSE [found |-> TRUE,
             value |-> array[CHOOSE i \in passing : \A j \in passing : i <= j]]

---------------------------------------------------------------------------
(* MemStorage: the read operations.  Each gives the store it leaves and    *)
(* the value it returns.                                                   *)

\* map.get(id), undefined when the key is absent
MapGet(m, id) ==
    IF id \in DOMAIN m THEN [found |-> TRUE, value |-> m[id]] ELSE [found |-> FALSE]

\* getUser(id)
getUser(S, id) == [store |-> S, value |-> MapGet(S.users, id)]

\* getUserByUsername(username)
getUserByUsername(S, username) ==
    [store |-> S,
     value |-> LET array == ArrayFromValues(S.users)
               IN ArrayFind(array,
                      [i \in DOMAIN array |->
                          toLowerCase(Chars(array[i].username)) = toLowerCase(Chars(username))])]

\* createUser(insertUser)
createUser(S, insertUser) ==
    LET id == S.userId
        user == Spread(insertUser, [id |-> id])
    IN [S EXCEPT !.userId = id + 1,
                 !.users = MapSet(S.users, id, user)]

\* getAllProjects()
getAllProjects(S) ==
    [store |-> S, value |-> SortDescending(ArrayFromValues(S.projects), "upvotes")]

\* getProjectById(id)
getProjectById(S, id) == [store |-> S, value |-> MapGet(S.projects, id)]

\* getProjectsByType(issueType)
getProjectsByType(S, issueType) ==
    [store |-> S,
     value |-> SortDescending(SelectSeq(ArrayFromValues(S.projects),
                                  LAMBDA project : project.issueType = issueType),
                              "upvotes")]

\* getProjectsByStatus(progressStatus)
getProjectsByStatus(S, progressStatus) ==
    [store |-> S,
     value |-> SortDescending(SelectSeq(ArrayFromValues(S.projects),
                                  LAMBDA project : project.progressStatus = progressStatus),
                              "upvotes")]

\* getUpvotesByProject(projectId)
getUpvotesByProject(S, pid) ==
    [store |-> S,
     value |-> SelectSeq(ArrayFromValues(S.upvotes), LAMBDA upvote : upvote.projectId = pid)]

\* getEmailsByProject(projectId)
getEmailsByProject(S, pid) ==
    [store |-> S,
     value |-> SortDescending(SelectSeq(ArrayFromValues(S.emails),
                                  LAMBDA email : email.projectId = pid),
                              "sentAt")]

\* getRecentActivities cutting the stored activities down to the ones it returns
getRecentActivities_Splice(S, limit) ==
    LET recent == SliceFromStart(SortDescending(ArrayFromValues(S.activities), "createdAt"),
                                 limit)
        kept == {recent[i].id : i \in DOMAIN recent}
    IN [store |-> [S EXCEPT !.activities = [k \in kept |-> S.activities[k]]],
        value |-> recent]

\* getRecentActivities(limit)
getRecentActivities(S, limit) ==
    [store |-> S,
     value |-> SliceFromStart(SortDescending(ArrayFromValues(S.activities), "createdAt"),
                              limit)]

\* getActivitiesByProject(projectId)
getActivitiesByProject(S, pid) ==
    [store |-> S,
     value |-> SortDescending(SelectSeq(ArrayFromValues(S.activities),
                                  LAMBDA activity : activity.projectId = pid),
                              "createdAt")]

\* searchProjects(query)
searchProjects(S, query) ==
    LET lowerQuery == toLowerCase(Chars(query))
    IN [store |-> S,
        value |-> SortDescending(
                     SelectSeq(ArrayFromValues(S.projects),
                        LAMBDA project :
                           \/ includes(toLowerCase(Chars(project.title)), lowerQuery)
                           \/ includes(toLowerCase(Chars(project.description)), lowerQuery)
                           \/ includes(toLowerCase(Chars(project.location)), lowerQuery)),
                     "upvotes")]

\* getCommentsByProject(projectId)
getCommentsByProject(S, pid) ==
    [store |-> S,
     value |-> SortDescending(SelectSeq(ArrayFromValues(S.comments),
                                  LAMBDA comment : comment.projectId = pid),
                              "createdAt")]

---------------------------------------------------------------------------
(* Numbers.  A number of the code is an IEEE 754 double.  An integer that  *)
(* needs more than 31 bits is kept as its digits in base 2^15, the least   *)
(* significant first; a double that is not an integer is kept as           *)
(* significand * 2^(-scale) with an integer significand of 53 bits.        *)

\* the bits of the significand of a double
SignificandBits == 53

\* the base of the digits
DigitBase == 2^15

RECURSIVE BigTimesCarry(_, _, _)
\* big * m + carry, for m <= DigitBase
BigTimesCarry(big, m, carry) ==
    IF big = <<>> THEN (IF carry = 0 THEN <<>> ELSE <<carry>>)
    ELSE LET p == Head(big) * m + carry
         IN <<p % DigitBase>> \o BigTimesCarry(Tail(big), m, p \div DigitBase)

BigTimes(big, m) == BigTimesCarry(big, m, 0)

RECURSIVE BigPlusCarry(_, _)
\* big + carry
BigPlusCarry(big, carry) ==
    IF carry = 0 THEN big
    ELSE IF big = <<>> THEN <<carry>>
    ELSE LET s == Head(big) + carry
         IN <<s % DigitBase>> \o BigPlusCarry(Tail(big), s \div DigitBase)

RECURSIVE BigTimesPowerOf2(_, _)
\* big * 2^n
BigTimesPowerOf2(big, n) ==
    IF n >= 15 THEN BigTimesPowerOf2(<<0>> \o big, n - 15) ELSE BigTimes(big, 2^n)

RECURSIVE StripZeros(_)
\* the digits without most significant zeros
StripZeros(big) ==
    IF big # <<>> /\ big[Len(big)] = 0 THEN StripZeros(SubSeq(big, 1, Len(big) - 1)) ELSE big

RECURSIVE BigDividedBy(_, _)
\* quotient and remainder of big by d, for 0 < d <= DigitBase
BigDividedBy(big, d) ==
    IF big = <<>> THEN [quotient |-> <<>>, remainder |-> 0]
    ELSE LET high == BigDividedBy(Tail(big), d)
             cur == high.remainder * DigitBase + Head(big)
         IN [quotient |-> StripZeros(<<cur \div d>> \o high.quotient),
             remainder |-> cur % d]

RECURSIVE BigDividedByPowerOf2(_, _)
\* quotient of big by 2^n, and whether the remainder is at least half of
\* 2^n (half), exactly half (tie), or more (the rest below the half is not 0)
BigDividedByPowerOf2(big, n) ==
    IF n > 15
    THEN LET low == BigDividedByPowerOf2(Tail(big), n - 15)
         IN [quotient |-> low.quotient, half |-> low.half,
             tie |-> low.tie /\ Head(big) = 0]
    ELSE LET q == BigDividedBy(big, 2^n)
         IN [quotient |-> q.quotient,
             half |-> 2 * q.remainder >= 2^n,
             tie |-> 2 * q.remainder = 2^n]

RECURSIVE IntBitLength(_)
IntBitLength(n) == IF n = 0 THEN 0 ELSE 1 + IntBitLength(n \div 2)

\* the number of bits of big > 0
BigBitLength(big) == 15 * (Len(big) - 1) + IntBitLength(big[Len(big)])

RECURSIVE BigToInt(_)
\* the value of a big that fits an integer
BigToInt(big) == IF big = <<>> THEN 0 ELSE Head(big) + DigitBase * BigToInt(Tail(big))

\* round to nearest, ties to even: the quotient, one more when the remainder
\* is above the half, or is the half and the quotient is odd
RoundHalfEven(q) ==
    IF q.half /\ (~q.tie \/ Head(q.quotient) % 2 = 1)
    THEN BigPlusCarry(q.quotient, 1) ELSE q.quotient

RECURSIVE FirstOne(_, _)
\* position of the first 1 in the binary fraction a / b, for 0 < a < b
FirstOne(a, b) == IF 2 * a >= b THEN 1 ELSE 1 + FirstOne(2 * a, b)

\* a / b in double arithmetic, for integers 0 < a < b <= DigitBase: the
\* quotient of a * 2^scale by b has 53 bits
DoubleDivide(a, b) ==
    LET scale == FirstOne(a, b) + SignificandBits - 1
        q == BigDividedBy(BigTimesPowerOf2(<<a>>, scale), b)
    IN [significand |-> RoundHalfEven([quotient |-> q.quotient,
                                       half |-> 2 * q.remainder >= b,
                                       tie |-> 2 * q.remainder = b]),
        scale |-> scale]

\* x * 100 in double arithmetic: the exact product, rounded to 53 bits
DoubleTimes100(x) ==
    LET product == BigTimes(x.significand, 100)
        extra == BigBitLength(product) - SignificandBits
    IN [significand |-> RoundHalfEven(BigDividedByPowerOf2(product, extra)),
        scale |-> x.scale - extra]

\* Math.round(x) for a double x > 0 with scale > 0: floor(x + 0.5), which is
\* floor((floor(2 * x) + 1) / 2)
MathRound(x) ==
    (BigToInt(BigDividedByPowerOf2(x.significand, x.scale - 1).quotient) + 1) \div 2

\* Math.round((issuesResolved / totalIssues) * 100), for
\* 0 <= issuesResolved <= totalIssues and 0 < totalIssues: 0 / t is 0 and
\* t / t is 1, and 0 * 100 and 1 * 100 are exact
RoundedPercentage(issuesResolved, totalIssues) ==
    IF issuesResolved = 0 THEN 0
    ELSE IF issuesResolved = totalIssues THEN 100
    ELSE MathRound(DoubleTimes100(DoubleDivide(issuesResolved, totalIssues)))

RECURSIVE SumOf(_, _)
\* the sum of a field over an array
SumOf(array, field) ==
    IF array = <<>> THEN 0 ELSE Head(array)[field] + SumOf(Tail(array), field)

\* getCommunityStats reporting the sum of the projects' emailsSent counters
getCommunityStats_SumCounters(S) ==
    LET all == ArrayFromValues(S.projects)
        activeIssues == Len(SelectSeq(all, LAMBDA p : p.progressStatus # "completed"))
        issuesResolved == Len(SelectSeq(all, LAMBDA p : p.progressStatus = "completed"))
        totalIssues == Len(all)
        totalEmails == SumOf(all, "emailsSent")
        successRate == IF totalIssues > 0
                       THEN RoundedPercentage(issuesResolved, totalIssues)
                       ELSE 0
    IN [store |-> S,
        value |-> [activeIssues |-> activeIssues,
                   emailsSent |-> totalEmails,
                   issuesResolved |-> issuesResolved,
                   successRate |-> successRate]]

\* getCommunityStats()
getCommunityStats(S) ==
    LET all == ArrayFromValues(S.projects)
        activeIssues == Len(SelectSeq(all, LAMBDA p : p.progressStatus # "completed"))
        issuesResolved == Len(SelectSeq(all, LAMBDA p : p.progressStatus = "completed"))
        totalIssues == Len(all)
        totalEmails == Len(ArrayFromValues(S.emails))
        successRate == IF totalIssues > 0
                       THEN RoundedPercentage(issuesResolved, totalIssues)
                       ELSE 0
    IN [store |-> S,
        value |-> [activeIssues |-> activeIssues,
                   emailsSent |-> totalEmails,
                   issuesResolved |-> issuesResolved,
                   successRate |-> successRate]]

---------------------------------------------------------------------------
(* The constructor.                                                        *)

\* the maps and counters as the constructor sets them before addSampleData
emptyStore ==
    [users |-> <<>>, projects |-> <<>>, upvotes |-> <<>>, emails |-> <<>>,
     activities |-> <<>>, comments |-> <<>>,
     userId |-> 1, projectId |-> 1, upvoteId |-> 1, emailId |-> 1,
     activityId |-> 1, commentId |-> 1,
     now |-> 0]

\* 24 * 60 * 60 * 1000 milliseconds
DayMs == 24 * 60 * 60 * 1000

\* addSampleData()
addSampleData(S) ==
    LET project1 == [id |-> S.projectId,
                     title |-> "Crosswalk Needed at Lincoln & 5th Ave",
                     description |-> "Dangerous intersection with high pedestrian traffic and no safe crossing.",
                     issueType |-> "crosswalk",
                     location |-> "Lincoln & 5th Ave",
                     upvotes |-> 45,
                     emailsSent |-> 38,
                     progressStatus |-> "community_support",
                     createdAt |-> S.now - 7 * DayMs,
                     createdBy |-> NULL]
        project2 == [id |-> S.projectId + 1,
                     title |-> "Broken Sidewalk on Oak Street",
                     description |-> "Multiple large cracks making it difficult for wheelchair access.",
                     issueType |-> "sidewalk",
                     location |-> "Oak Street",
                     upvotes |-> 23,
                     emailsSent |-> 12,
                     progressStatus |-> "idea_submitted",
                     createdAt |-> S.now - 14 * DayMs,
                     createdBy |-> NULL]
        project3 == [id |-> S.projectId + 2,
                     title |-> "Large Pothole on Main Street",
                     description |-> "Deep pothole causing vehicle damage and traffic backup during rush hours.",
                     issueType |-> "pothole",
                     location |-> "Main Street & Broadway",
                     upvotes |-> 67,
                     emailsSent |-> 52,
                     progressStatus |-> "official_acknowledgment",
                     createdAt |-> S.now - 21 * DayMs,
                     createdBy |-> NULL]
        S1 == [S EXCEPT !.projectId = S.projectId + 3,
                        !.projects = MapSet(MapSet(MapSet(S.projects,
                                        project1.id, project1),
                                        project2.id, project2),
                                        project3.id, project3)]
        S2 == createActivity(S1,
                 [projectId |-> project1.id,
                  activityType |-> "email_sent",
                  actorName |-> "Alex Johnson",
                  description |-> <<"Sent an email about Crosswalk Needed at Lincoln & 5th Ave", "">>])
        S3 == createActivity(S2,
                 [projectId |-> project3.id,
                  activityType |-> "status_change",
                  actorName |-> "City Council",
                  description |-> <<"Acknowledged Large Pothole on Main Street", "">>])
        S4 == createActivity(S3,
                 [projectId |-> project2.id,
                  activityType |-> "project_created",
                  actorName |-> "Maria Lopez",
                  description |-> <<"Submitted a new issue: Broken Sidewalk on Oak Street", "">>])
        comment1 == [id |-> S4.commentId,
                     projectId |-> project1.id,
                     text |-> "I cross this intersection daily and it's very dangerous. We definitely need a crosswalk here.",
                     commenterName |-> "David Chen",
                     createdAt |-> S4.now - 5 * DayMs]
        comment2 == [id |-> S4.commentId + 1,
                     projectId |-> project1.id,
                     text |-> "I witnessed a near-miss accident here last week. The city needs to take action quickly.",
                     commenterName |-> "Sarah Williams",
                     createdAt |-> S4.now - 3 * DayMs]
        comment3 == [id |-> S4.commentId + 2,
                     projectId |-> project3.id,
                     text |-> "My car was damaged by this pothole. It's much worse after the recent rain.",
                     commenterName |-> "Michael Rodriguez",
                     createdAt |-> S4.now - 10 * DayMs]
    IN [S4 EXCEPT !.commentId = S4.commentId + 3,
                  !.comments = MapSet(MapSet(MapSet(S4.comments,
                                  comment1.id, comment1),
                                  comment2.id, comment2),
                                  comment3.id, comment3)]

\* new MemStorage()
constructor == addSampleData(emptyStore)

---------------------------------------------------------------------------
(* Inputs.                                                                 *)

\* the sample projects, and the id the first created project gets
ProjectIdInputs == (DOMAIN constructor.projects) \cup {constructor.projectId}
IpAddresses == {"1.2.3.4", "5.6.7.8"}

InsertProjects ==
    {[title |-> "Dark Street Light on Elm",
      description |-> "The lamp at the corner has been out for weeks.",
      issueType |-> "streetlight",
      location |-> "Elm Street",
      createdBy |-> NULL]}

\* direct createUpvote calls: one per project id
InsertUpvotes ==
    {[projectId |-> p, ipAddress |-> "1.2.3.4", userId |-> NULL] : p \in ProjectIdInputs}

\* direct createEmail calls: an anonymous one per project id, and a signed one
InsertEmails ==
    {[projectId |-> p, senderEmail |-> NULL, senderName |-> NULL, customContent |-> NULL] :
        p \in ProjectIdInputs}
    \cup {[projectId |-> 1, senderEmail |-> "dana@example.com", senderName |-> "Dana",
           customContent |-> NULL]}

InsertComments ==
    {[projectId |-> p, text |-> "Please fix this.", commenterName |-> "Lee"] :
        p \in ProjectIdInputs}

\* direct updateProject(id, updates) calls: a patch of the two counters to
\* just below the thresholds, a patch that takes the upvotes behind a
\* community_support status away, a status lowered, an early status the
\* counters do not back, a status raised past the automatic ones, a late
\* status lowered, and an id that is absent until the first project is created
UpdateProjectCalls ==
    {<<2, [upvotes |-> 24, emailsSent |-> 49]>>,
     <<1, [upvotes |-> 0]>>,
     <<1, [progressStatus |-> "idea_submitted"]>>,
     <<2, [progressStatus |-> "email_campaign_active"]>>,
     <<2, [progressStatus |-> "completed"]>>,
     <<3, [progressStatus |-> "community_support"]>>,
     <<4, [progressStatus |-> "planning_stage"]>>}

---------------------------------------------------------------------------
(* The store's operations as steps.  A call is taken when the store it      *)
(* leaves stays within the bounds; the first conjunct of each step states  *)
(* the part of that condition known before the call.                       *)

WithinBounds(S) ==
    /\ S.userId <= MaxUserId + 1
    /\ S.projectId <= MaxProjectId + 1
    /\ S.upvoteId <= MaxUpvoteId + 1
    /\ S.emailId <= MaxEmailId + 1
    /\ S.commentId <= MaxCommentId + 1
    /\ S.activityId <= MaxActivityId + 1

CallCreateProject(insertProject) ==
    /\ projectId <= MaxProjectId /\ activityId <= MaxActivityId
    /\ \E T \in {createProject(Store, insertProject)} :
          WithinBounds(T) /\ SetStore(T)
    /\ UNCHANGED <<now, response, dps, ret, dispatch, calls, wizard>>

CallUpdateProject(id, updates) ==
    /\ \E T \in {updateProject(Store, id, updates)} :
          WithinBounds(T) /\ SetStore(T)
    /\ UNCHANGED <<now, response, dps, ret, dispatch, calls, wizard>>

CallCreateUpvote(insertUpvote) ==
    /\ upvoteId <= MaxUpvoteId
    /\ insertUpvote.projectId \in DOMAIN projects => activityId <= MaxActivityId
    /\ \E T \in {createUpvote(Store, insertUpvote)} :
          WithinBounds(T) /\ SetStore(T)
    /\ UNCHANGED <<now, response, dps, ret, dispatch, calls, wizard>>

CallCreateEmail(insertEmail) ==
    /\ emailId <= MaxEmailId
    /\ insertEmail.projectId \in DOMAIN projects => activityId <= MaxActivityId
    /\ \E T \in {createEmail(Store, insertEmail)} :
          WithinBounds(T) /\ SetStore(T)
    /\ UNCHANGED <<now, response, dps, ret, dispatch, calls, wizard>>

CallCreateComment(insertComment) ==
    /\ commentId <= MaxCommentId /\ activityId <= MaxActivityId
    /\ \E T \in {createComment(Store, insertComment)} :
          WithinBounds(T) /\ SetStore(T)
    /\ UNCHANGED <<now, response, dps, ret, dispatch, calls, wizard>>

\* no asynchronous call has been made yet
NoCalls == [c \in 1..MaxCalls |-> [pc |-> "ready"]]

\* no call of a store operation has returned yet
\* IssueSubmissionModal: the state after the component's first render, the modal closed;
\* submittedProject is null ([found |-> FALSE]) or a project
useState ==
    [isOpen |-> FALSE,
     currentStep |-> "details",
     submittedProject |-> [found |-> FALSE],
     formData |-> [title |-> "", description |-> "", issueType |-> "", location |-> ""],
     emailTemplate |-> [emailBody |-> "", emailSubject |-> "", emailTo |-> ""],
     generateEmailMutation |-> [isPending |-> FALSE],
     createProjectMutation |-> [isPending |-> FALSE]]

NoReturn == [op |-> "", value |-> NULL]

Init ==
    /\ users = constructor.users
    /\ userId = constructor.userId
    /\ now = constructor.now
    /\ ret = NoReturn
    /\ projects = constructor.projects
    /\ upvotes = constructor.upvotes
    /\ emails = constructor.emails
    /\ activities = constructor.activities
    /\ comments = constructor.comments
    /\ projectId = constructor.projectId
    /\ upvoteId = constructor.upvoteId
    /\ emailId = constructor.emailId
    /\ activityId = constructor.activityId
    /\ commentId = constructor.commentId
    /\ response = [status |-> 0, message |-> ""]
    /\ dispatch = <<>>
    /\ calls = NoCalls
    /\ wizard = useState
    /\ dps = [called |-> FALSE, upvotes |-> 0, emailsSent |-> 0,
              currentStatus |-> "idea_submitted", result |-> ""]

Next ==
    \/ \E insertProject \in InsertProjects : CallCreateProject(insertProject)
    \/ \E call \in UpdateProjectCalls : CallUpdateProject(call[1], call[2])
    \/ \E insertUpvote \in InsertUpvotes : CallCreateUpvote(insertUpvote)
    \/ \E insertEmail \in InsertEmails : CallCreateEmail(insertEmail)
    \/ \E insertComment \in InsertComments : CallCreateComment(insertComment)

Spec == Init /\ [][Next]_vars

---------------------------------------------------------------------------
(* The store's operations called one at a time by a caller that keeps the  *)
(* value each call returns.                                                *)

InsertUsers ==
    {[username |-> "Dana", password |-> "secret", email |-> "dana@example.com"]}

\* createProject inputs: the validated one, and one that carries the fields
\* the insert schema omits
ApiInsertProjects ==
    InsertProjects
    \cup {[title |-> "Dark Street Light on Elm",
           description |-> "The lamp at the corner has been out for weeks.",
           issueType |-> "streetlight",
           location |-> "Elm Street",
           createdBy |-> NULL,
           id |-> 1,
           upvotes |-> 99,
           emailsSent |-> 99,
           progressStatus |-> "completed"]}

InsertActivities ==
    {[projectId |-> 3, activityType |-> "status_change", actorName |-> NULL,
      description |-> <<"Work scheduled", "">>]}

\* updateProject calls: a project completed, one brought level with the
\* upvotes of project 1, and an id no project has
ApiUpdateProjectCalls ==
    {<<2, [progressStatus |-> "completed"]>>,
     <<3, [upvotes |-> 45]>>,
     <<9, [upvotes |-> 1]>>}

ApiInsertUpvotes == {u \in InsertUpvotes : u.projectId = 2}
ApiInsertEmails == {e \in InsertEmails : e.projectId = 1 /\ e.senderName = NULL}
ApiInsertComments == {c \in InsertComments : c.projectId = 1}

IssueTypeInputs == {"crosswalk", "streetlight", "other"}
UsernameInputs == {"DANA", "lee"}
QueryInputs == {"", "oak", "OAK", "Street", "wheelchair", "broadway", "5th ave", "canal"}
LimitInputs == {0, 2, 10}

Returned(op, args, value) == [op |-> op, args |-> args, value |-> value]

ApiCreateUser(insertUser) ==
    /\ userId <= MaxUserId
    /\ \E T \in {createUser(Store, insertUser)} :
          /\ WithinBounds(T) /\ SetStore(T)
          /\ ret' = Returned("createUser", <<insertUser>>, T.users[userId])
    /\ UNCHANGED <<now, response, dps, dispatch, calls, wizard>>

ApiCreateProject(insertProject) ==
    /\ projectId <= MaxProjectId /\ activityId <= MaxActivityId
    /\ \E T \in {createProject(Store, insertProject)} :
          /\ WithinBounds(T) /\ SetStore(T)
          /\ ret' = Returned("createProject", <<insertProject>>, T.projects[projectId])
    /\ UNCHANGED <<now, response, dps, dispatch, calls, wizard>>

ApiUpdateProject(id, updates) ==
    /\ \E T \in {updateProject(Store, id, updates)} :
          /\ WithinBounds(T) /\ SetStore(T)
          /\ ret' = Returned("updateProject", <<id, updates>>, MapGet(T.projects, id))
    /\ UNCHANGED <<now, response, dps, dispatch, calls, wizard>>

ApiCreateUpvote(insertUpvote) ==
    /\ upvoteId <= MaxUpvoteId
    /\ insertUpvote.projectId \in DOMAIN projects => activityId <= MaxActivityId
    /\ \E T \in {createUpvote(Store, insertUpvote)} :
          /\ WithinBounds(T) /\ SetStore(T)
          /\ ret' = Returned("createUpvote", <<insertUpvote>>, T.upvotes[upvoteId])
    /\ UNCHANGED <<now, response, dps, dispatch, calls, wizard>>

ApiCreateEmail(insertEmail) ==
    /\ emailId <= MaxEmailId
    /\ insertEmail.projectId \in DOMAIN projects => activityId <= MaxActivityId
    /\ \E T \in {createEmail(Store, insertEmail)} :
          /\ WithinBounds(T) /\ SetStore(T)
          /\ ret' = Returned("createEmail", <<insertEmail>>, T.emails[emailId])
    /\ UNCHANGED <<now, response, dps, dispatch, calls, wizard>>

ApiCreateActivity(insertActivity) ==
    /\ activityId <= MaxActivityId
    /\ \E T \in {createActivity(Store, insertActivity)} :
          /\ WithinBounds(T) /\ SetStore(T)
          /\ ret' = Returned("createActivity", <<insertActivity>>, T.activities[activityId])
    /\ UNCHANGED <<now, response, dps, dispatch, calls, wizard>>

ApiCreateComment(insertComment) ==
    /\ commentId <= MaxCommentId /\ activityId <= MaxActivityId
    /\ \E T \in {createComment(Store, insertComment)} :
          /\ WithinBounds(T) /\ SetStore(T)
          /\ ret' = Returned("createComment", <<insertComment>>, T.comments[commentId])
    /\ UNCHANGED <<now, response, dps, dispatch, calls, wizard>>

\* a read: the store is what the operation leaves, the value is kept
ApiRead(op, args, read) ==
    /\ SetStore(read.store)
    /\ ret' = Returned(op, args, read.value)
    /\ UNCHANGED <<now, response, dps, dispatch, calls, wizard>>

ApiGetUser == \E id \in 1..2 : ApiRead("getUser", <<id>>, getUser(Store, id))

ApiGetUserByUsername ==
    \E username \in UsernameInputs :
        ApiRead("getUserByUsername", <<username>>, getUserByUsername(Store, username))

ApiGetAllProjects == ApiRead("getAllProjects", <<>>, getAllProjects(Store))

ApiGetProjectById ==
    \E id \in {1, 4, 9} : ApiRead("getProjectById", <<id>>, getProjectById(Store, id))

ApiGetProjectsByType ==
    \E issueType \in IssueTypeInputs :
        ApiRead("getProjectsByType", <<issueType>>, getProjectsByType(Store, issueType))

ApiGetProjectsByStatus ==
    \E progressStatus \in {"idea_submitted", "completed"} :
        ApiRead("getProjectsByStatus", <<progressStatus>>,
                getProjectsByStatus(Store, progressStatus))

ApiSearchProjects ==
    \E query \in QueryInputs :
        ApiRead("searchProjects", <<query>>, searchProjects(Store, query))

ApiGetUpvotesByProject ==
    \E pid \in {2} : ApiRead("getUpvotesByProject", <<pid>>, getUpvotesByProject(Store, pid))

ApiHasUserUpvoted ==
    \E pid \in {2}, ipAddress \in IpAddresses :
        ApiRead("hasUserUpvoted", <<pid, ipAddress>>,
                [store |-> Store, value |-> hasUserUpvoted(Store, pid, ipAddress)])

ApiGetEmailsByProject ==
    \E pid \in {1} : ApiRead("getEmailsByProject", <<pid>>, getEmailsByProject(Store, pid))

ApiGetRecentActivities ==
    \E limit \in LimitInputs :
        ApiRead("getRecentActivities", <<limit>>, getRecentActivities(Store, limit))

ApiGetActivitiesByProject ==
    \E pid \in {1} :
        ApiRead("getActivitiesByProject", <<pid>>, getActivitiesByProject(Store, pid))

ApiGetCommentsByProject ==
    \E pid \in {1} :
        ApiRead("getCommentsByProject", <<pid>>, getCommentsByProject(Store, pid))

ApiGetCommunityStats == ApiRead("getCommunityStats", <<>>, getCommunityStats(Store))

NextApi ==
    \/ \E insertUser \in InsertUsers : ApiCreateUser(insertUser)
    \/ \E insertProject \in ApiInsertProjects : ApiCreateProject(insertProject)
    \/ \E call \in ApiUpdateProjectCalls : ApiUpdateProject(call[1], call[2])
    \/ \E insertUpvote \in ApiInsertUpvotes : ApiCreateUpvote(insertUpvote)
    \/ \E insertEmail \in ApiInsertEmails : ApiCreateEmail(insertEmail)
    \/ \E insertActivity \in InsertActivities : ApiCreateActivity(insertActivity)
    \/ \E insertComment \in ApiInsertComments : ApiCreateComment(insertComment)

SpecApi == Init /\ [][NextApi]_vars

\* the read operations, between calls that create a user, a project and an
\* email and that update a project
SpecReads ==
    Init /\ [][\/ \E insertUser \in InsertUsers : ApiCreateUser(insertUser)
               \/ \E insertProject \in InsertProjects : ApiCreateProject(insertProject)
               \/ \E call \in ApiUpdateProjectCalls : ApiUpdateProject(call[1], call[2])
               \/ \E insertEmail \in ApiInsertEmails : ApiCreateEmail(insertEmail)
               \/ ApiGetUser
               \/ ApiGetUserByUsername
               \/ ApiGetAllProjects
               \/ ApiGetProjectById
               \/ ApiGetProjectsByType
               \/ ApiGetProjectsByStatus
               \/ ApiSearchProjects
               \/ ApiGetUpvotesByProject
               \/ ApiHasUserUpvoted
               \/ ApiGetEmailsByProject
               \/ ApiGetRecentActivities
               \/ ApiGetActivitiesByProject
               \/ ApiGetCommentsByProject
               \/ ApiGetCommunityStats]_vars

---------------------------------------------------------------------------
(* getCommunityStats over many projects: projects are created, then        *)
(* completed in the order of their ids, and the stats are read.            *)

\* the number of completed projects
Completed == Cardinality({p \in DOMAIN projects : projects[p].progressStatus = "completed"})

StatsCreateProject ==
    /\ projectId <= MaxStatsProjects
    /\ Completed = 0
    /\ \E insertProject \in InsertProjects :
          \E T \in {createProject(Store, insertProject)} :
             /\ SetStore(T)
             /\ ret' = Returned("createProject", <<insertProject>>, T.projects[projectId])
    /\ UNCHANGED <<now, response, dps, dispatch, calls, wizard>>

StatsCompleteProject ==
    /\ Completed + 1 \in DOMAIN projects
    /\ \E updates \in {[progressStatus |-> "completed"]} :
          \E T \in {updateProject(Store, Completed + 1, updates)} :
             /\ SetStore(T)
             /\ ret' = Returned("updateProject", <<Completed + 1, updates>>,
                                MapGet(T.projects, Completed + 1))
    /\ UNCHANGED <<now, response, dps, dispatch, calls, wizard>>

SpecStats ==
    Init /\ [][\/ StatsCreateProject
               \/ StatsCompleteProject
               \/ ApiGetCommunityStats]_vars

---------------------------------------------------------------------------
(* Calls of the store that name a project: every id of ProjectIdInputs,    *)
(* the one no project has yet included.                                    *)

SpecRefs ==
    Init /\ [][\/ \E insertProject \in InsertProjects : ApiCreateProject(insertProject)
               \/ \E insertUpvote \in InsertUpvotes : ApiCreateUpvote(insertUpvote)
               \/ \E insertEmail \in InsertEmails : ApiCreateEmail(insertEmail)
               \/ \E insertComment \in InsertComments : ApiCreateComment(insertComment)]_vars

---------------------------------------------------------------------------
(* Asynchronous calls of the store.  An async method runs from its call to *)
(* its first await without interruption, the methods it calls on the way   *)
(* included; at an await the call is suspended and any other call may run  *)
(* before it resumes.  updateProject and createActivity change the store   *)
(* before their own first await, so createUpvote and createEmail change it *)
(* in two runs: up to `await this.updateProject(...)`, and from there, by  *)
(* the createActivity call, to the return.                                 *)

\* createUpvote from the call to its await of updateProject; project is the
\* handle `const project` keeps across the await
createUpvoteToAwait(S, insertUpvote) ==
    LET id == S.upvoteId
        upvote == [id |-> id,
                   projectId |-> insertUpvote.projectId,
                   ipAddress |-> insertUpvote.ipAddress,
                   userId |-> OrElse(insertUpvote.userId, NULL),
                   createdAt |-> S.now]
        S1 == [S EXCEPT !.upvoteId = id + 1,
                        !.upvotes = MapSet(S.upvotes, id, upvote)]
        project == MapGet(S1.projects, upvote.projectId)
    IN [store |-> IF project.found
                  THEN updateProject(S1, project.value.id, upvoteUpdates(project.value))
                  ELSE S1,
        pc |-> IF project.found THEN "awaiting" ELSE "returned",
        op |-> "createUpvote", row |-> upvote, project |-> project]

\* createEmail from the call to its await of updateProject
createEmailToAwait(S, insertEmail) ==
    LET id == S.emailId
        email == [id |-> id,
                  projectId |-> insertEmail.projectId,
                  senderEmail |-> OrElse(insertEmail.senderEmail, NULL),
                  senderName |-> OrElse(insertEmail.senderName, NULL),
                  customContent |-> OrElse(insertEmail.customContent, NULL),
                  sentAt |-> S.now]
        S1 == [S EXCEPT !.emailId = id + 1,
                        !.emails = MapSet(S.emails, id, email)]
        project == MapGet(S1.projects, email.projectId)
    IN [store |-> IF project.found
                  THEN updateProject(S1, project.value.id, emailUpdates(project.value))
                  ELSE S1,
        pc |-> IF project.found THEN "awaiting" ELSE "returned",
        op |-> "createEmail", row |-> email, project |-> project]

\* the rest of the call writing the counter again from the handle it kept
afterAwait_StaleWrite(S, call) ==
    LET project == call.project.value
        S1 == [S EXCEPT !.projects = MapSet(S.projects, project.id,
                   Spread(S.projects[project.id],
                          IF call.op = "createUpvote"
                          THEN [upvotes |-> project.upvotes + 1]
                          ELSE [emailsSent |-> project.emailsSent + 1]))]
    IN createActivity(S1,
          [projectId |-> project.id,
           activityType |-> IF call.op = "createUpvote" THEN "upvote" ELSE "email_sent",
           actorName |-> "Anonymous User",
           description |-> <<"", project.title>>])

\* the rest of createUpvote / createEmail once updateProject has returned
afterAwait(S, call) ==
    LET project == call.project.value
    IN IF call.op = "createUpvote"
       THEN createActivity(S,
               [projectId |-> project.id,
                activityType |-> "upvote",
                actorName |-> "Anonymous User",
                description |-> <<"Someone upvoted: ", project.title>>])
       ELSE createActivity(S,
               [projectId |-> project.id,
                activityType |-> "email_sent",
                actorName |-> OrElse(call.row.senderName, "Anonymous User"),
                description |-> <<"Email sent regarding: ", project.title>>])

\* the projects concurrent calls name: one far from a threshold, one an
\* upvote or two below one, and the id no project has
\* storage.createUpvote(insertUpvote) is called: it runs to its await
AsyncCreateUpvote(c, insertUpvote) ==
    /\ calls[c].pc = "ready"
    /\ \E T \in {createUpvoteToAwait(Store, insertUpvote)} :
          /\ SetStore(T.store)
          /\ calls' = [calls EXCEPT ![c] = [pc |-> T.pc, op |-> T.op, row |-> T.row,
                                            project |-> T.project]]
    /\ UNCHANGED <<now, response, dps, ret, dispatch, wizard>>

\* storage.createEmail(insertEmail) is called: it runs to its await
AsyncCreateEmail(c, insertEmail) ==
    /\ calls[c].pc = "ready"
    /\ \E T \in {createEmailToAwait(Store, insertEmail)} :
          /\ SetStore(T.store)
          /\ calls' = [calls EXCEPT ![c] = [pc |-> T.pc, op |-> T.op, row |-> T.row,
                                            project |-> T.project]]
    /\ UNCHANGED <<now, response, dps, ret, dispatch, wizard>>

\* a suspended call resumes and runs to its return
AsyncResume(c) ==
    /\ calls[c].pc = "awaiting"
    /\ SetStore(afterAwait(Store, calls[c]))
    /\ calls' = [calls EXCEPT ![c].pc = "returned"]
    /\ UNCHANGED <<now, response, dps, ret, dispatch, wizard>>

SpecAsync ==
    Init /\ [][\/ \E c \in 1..MaxCalls :
                     \E insertUpvote \in {u \in InsertUpvotes : u.projectId \in {1, 2, 4}} :
                         AsyncCreateUpvote(c, insertUpvote)
               \/ \E c \in 1..MaxCalls :
                     \E insertEmail \in {e \in InsertEmails : e.projectId \in {1, 2, 4}} :
                         AsyncCreateEmail(c, insertEmail)
               \/ \E c \in 1..MaxCalls : AsyncResume(c)]_vars

---------------------------------------------------------------------------
(* The activity feed and the clock: a millisecond may or may not pass      *)
(* between two calls; the activities one call creates, and the ones the    *)
(* constructor creates, fall into one millisecond.                         *)

\* a millisecond passes
Tick ==
    /\ now < MaxNow
    /\ now' = now + 1
    /\ UNCHANGED <<storeVars, response, dps, ret, dispatch, calls, wizard>>

SpecClock ==
    Init /\ [][\/ Tick
               \/ \E insertActivity \in InsertActivities : ApiCreateActivity(insertActivity)
               \/ \E insertComment \in ApiInsertComments : ApiCreateComment(insertComment)
               \/ \E insertUpvote \in ApiInsertUpvotes : ApiCreateUpvote(insertUpvote)
               \/ ApiGetRecentActivities]_vars

---------------------------------------------------------------------------
(* determineProgressStatus on its own: every input within the bounds.      *)

CountInputs == 0..MaxCount

\* currentStatus is typed string: the seven statuses and one other string
StatusInputs == StatusSet \cup {"archived"}

\* the store as constructed, and a call of determineProgressStatus about to be made
InitDetermine ==
    /\ users = constructor.users
    /\ userId = constructor.userId
    /\ now = constructor.now
    /\ ret = NoReturn
    /\ projects = constructor.projects
    /\ upvotes = constructor.upvotes
    /\ emails = constructor.emails
    /\ activities = constructor.activities
    /\ comments = constructor.comments
    /\ projectId = constructor.projectId
    /\ upvoteId = constructor.upvoteId
    /\ emailId = constructor.emailId
    /\ activityId = constructor.activityId
    /\ commentId = constructor.commentId
    /\ response = [status |-> 0, message |-> ""]
    /\ dispatch = <<>>
    /\ calls = NoCalls
    /\ wizard = useState
    /\ \E nUpvotes \in CountInputs, nEmailsSent \in CountInputs, currentStatus \in StatusInputs :
          dps = [called |-> FALSE, upvotes |-> nUpvotes, emailsSent |-> nEmailsSent,
                 currentStatus |-> currentStatus, result |-> ""]

EvalDetermineProgressStatus ==
    /\ ~dps.called
    /\ dps' = [dps EXCEPT !.called = TRUE,
                          !.result = determineProgressStatus(dps.upvotes, dps.emailsSent,
                                                             dps.currentStatus)]
    /\ UNCHANGED <<storeVars, now, response, ret, dispatch, calls, wizard>>

SpecDetermine == InitDetermine /\ [][EvalDetermineProgressStatus]_vars

---------------------------------------------------------------------------
(* The email draft (openai.ts).  A JavaScript value is a record with its   *)
(* type; a text is the sequence of its parts.                              *)

\* object[key] of an object literal: an own property, a member inherited
\* from Object.prototype (a function), or undefined
PropertyOf(object, key) ==
    IF key \in DOMAIN object THEN [type |-> "string", text |-> <<object[key]>>]
    ELSE IF key \in {"constructor", "toString", "valueOf", "hasOwnProperty"}
    THEN [type |-> "function"]
    ELSE [type |-> "undefined"]

\* value || text: undefined and the empty string are falsy
OrText(value, text) ==
    IF value.type = "undefined" \/ (value.type = "string" /\ value.text = <<"">>)
    THEN [type |-> "string", text |-> <<text>>]
    ELSE value

\* getFallbackEmailTemplate(issueType, location, description, urgencyLevel)
getFallbackEmailTemplate(issueType, location, description, urgencyLevel) ==
    LET departmentEmails ==
            [crosswalk |-> "transportation@cityname.gov",
             pothole |-> "streetmaintenance@cityname.gov",
             sidewalk |-> "publicworks@cityname.gov",
             streetlight |-> "utilities@cityname.gov",
             other |-> "cityhall@cityname.gov"]
        departments ==
            [crosswalk |-> "Transportation Department",
             pothole |-> "Street Maintenance Department",
             sidewalk |-> "Public Works Department",
             streetlight |-> "Utilities Department",
             other |-> "City Hall"]
        issueNames ==
            [crosswalk |-> "crosswalk installation",
             pothole |-> "pothole repair",
             sidewalk |-> "sidewalk repair",
             streetlight |-> "street light installation",
             other |-> "infrastructure issue"]
        issueName == OrText(PropertyOf(issueNames, issueType), "infrastructure issue")
        department == OrText(PropertyOf(departments, issueType), "City Official")
        emailTo == OrText(PropertyOf(departmentEmails, issueType), "cityhall@cityname.gov")
        cs == Chars(issueName.text[1])
        \* issueName.charAt(0).toUpperCase() + issueName.slice(1)
        capitalized ==
            <<IF \E u \in DOMAIN LowerCaseLetters : LowerCaseLetters[u] = Head(cs)
              THEN UpperCaseLetters[CHOOSE u \in DOMAIN LowerCaseLetters :
                                        LowerCaseLetters[u] = Head(cs)]
              ELSE Head(cs)>> \o Tail(cs)
    IN IF issueName.type # "string"
       THEN [raised |-> TRUE, error |-> "TypeError: issueName.charAt is not a function"]
       ELSE [raised |-> FALSE,
             emailBody |->
                [type |-> "string",
                 text |-> <<"Dear ", department.text[1],
                            ",\n\nI am writing to request your attention to a ",
                            urgencyLevel, " priority ", issueName.text[1], " needed at ",
                            location, ". \n\n", description,
                            "\n\nThis issue affects the daily lives of many residents in our community and addressing it would greatly improve local infrastructure and safety.\n\nI would appreciate your department's consideration of this request. Please feel free to contact me if you require any additional details or community input regarding this matter.\n\nThank you for your attention to this important concern.\n\nSincerely,\n[Your Name]\n[Optional Contact Information]">>],
             emailSubject |->
                [type |-> "string",
                 text |-> <<"Request for ">> \o capitalized \o <<" at ", location>>],
             emailTo |-> emailTo]

\* JSON.parse(content), for the contents a completion of the model carries:
\* a complete draft, one without emailTo, an empty object, null, and prose
JSONparse(content) ==
    CASE content = "{\"emailSubject\":\"Street light out on Elm Street\",\"emailTo\":\"lighting@cityname.gov\",\"emailBody\":\"Dear Utilities Department, ...\"}" ->
            [ok |-> TRUE, type |-> "object",
             fields |-> [emailSubject |-> "Street light out on Elm Street",
                         emailTo |-> "lighting@cityname.gov",
                         emailBody |-> "Dear Utilities Department, ..."]]
      [] content = "{\"emailSubject\":\"Street light out on Elm Street\",\"emailBody\":\"Dear Utilities Department, ...\"}" ->
            [ok |-> TRUE, type |-> "object",
             fields |-> [emailSubject |-> "Street light out on Elm Street",
                         emailBody |-> "Dear Utilities Department, ..."]]
      [] content = "{}" -> [ok |-> TRUE, type |-> "object", fields |-> <<>>]
      [] content = "null\n" -> [ok |-> TRUE, type |-> "null"]
      [] OTHER -> [ok |-> FALSE]

\* what openai.chat.completions.create does: it rejects, or resolves with no
\* choice, or with one choice whose content is null, empty or a text
Completions ==
    {[rejects |-> TRUE, choices |-> <<>>], [rejects |-> FALSE, choices |-> <<>>]}
    \cup {[rejects |-> FALSE, choices |-> <<content>>] :
            content \in {NULL, "",
                "{\"emailSubject\":\"Street light out on Elm Street\",\"emailTo\":\"lighting@cityname.gov\",\"emailBody\":\"Dear Utilities Department, ...\"}",
                "{\"emailSubject\":\"Street light out on Elm Street\",\"emailBody\":\"Dear Utilities Department, ...\"}",
                "{}", "null\n",
                "Here is the email you asked for: Dear Utilities Department, ..."}}

\* generateEmailTemplate(issueType, location, description, urgencyLevel), given
\* what the completion request does
generateEmailTemplate(issueType, location, description, urgencyLevel, completion) ==
    LET fallback == getFallbackEmailTemplate(issueType, location, description, urgencyLevel)
        departmentEmails ==
            [crosswalk |-> "transportation@cityname.gov",
             pothole |-> "streetmaintenance@cityname.gov",
             sidewalk |-> "publicworks@cityname.gov",
             streetlight |-> "utilities@cityname.gov",
             other |-> "cityhall@cityname.gov"]
    IN IF completion.rejects THEN fallback
       \* response.choices[0].message of no choice: a TypeError, caught
       ELSE IF completion.choices = <<>> THEN fallback
       ELSE LET content == completion.choices[1]
                result == JSONparse(content)
            IN IF content = NULL \/ content = "" THEN fallback
               ELSE IF ~result.ok THEN fallback
               \* result.emailTo of null: a TypeError, caught
               ELSE IF result.type = "null" THEN fallback
               ELSE LET given == PropertyOf(result.fields, "emailTo")
                        emailTo ==
                            IF given.type = "undefined"
                            THEN OrText(PropertyOf(departmentEmails, issueType),
                                        "cityhall@cityname.gov")
                            ELSE given
                    IN [raised |-> FALSE,
                        emailBody |-> PropertyOf(result.fields, "emailBody"),
                        emailSubject |-> PropertyOf(result.fields, "emailSubject"),
                        emailTo |-> emailTo]

\* the store as constructed, and a call of generateEmailTemplate about to be
\* made: issueType is any string the request body carries
InitTemplate ==
    /\ users = constructor.users
    /\ userId = constructor.userId
    /\ now = constructor.now
    /\ projects = constructor.projects
    /\ upvotes = constructor.upvotes
    /\ emails = constructor.emails
    /\ activities = constructor.activities
    /\ comments = constructor.comments
    /\ projectId = constructor.projectId
    /\ upvoteId = constructor.upvoteId
    /\ emailId = constructor.emailId
    /\ activityId = constructor.activityId
    /\ commentId = constructor.commentId
    /\ response = [status |-> 0, message |-> ""]
    /\ dispatch = <<>>
    /\ calls = NoCalls
    /\ wizard = useState
    /\ dps = [called |-> FALSE, upvotes |-> 0, emailsSent |-> 0,
              currentStatus |-> "idea_submitted", result |-> ""]
    /\ \E issueType \in {"crosswalk", "streetlight", "other", "graffiti", "constructor"},
          location \in {"Elm Street", "Main Street & Broadway"},
          urgencyLevel \in {"low", "high"},
          completion \in Completions :
          ret = [op |-> "generateEmailTemplate",
                 args |-> <<issueType, location,
                            "The lamp at the corner has been out for weeks.", urgencyLevel>>,
                 completion |-> completion,
                 settled |-> FALSE]

EvalGenerateEmailTemplate ==
    /\ ~ret.settled
    /\ ret' = [op |-> ret.op, args |-> ret.args, completion |-> ret.completion,
               settled |-> TRUE,
               value |-> generateEmailTemplate(ret.args[1], ret.args[2], ret.args[3],
                                               ret.args[4], ret.completion)]
    /\ UNCHANGED <<storeVars, now, response, dps, dispatch, calls, wizard>>

SpecTemplate == InitTemplate /\ [][EvalGenerateEmailTemplate]_vars

---------------------------------------------------------------------------
(* The HTTP handlers, one request handled to completion at a time.         *)

Digits == <<"0", "1", "2", "3", "4", "5", "6", "7", "8", "9">>

IsDigit(c) == \E d \in DOMAIN Digits : Digits[d] = c

DigitValue(c) == (CHOOSE d \in DOMAIN Digits : Digits[d] = c) - 1

RECURSIVE LeadingDigits(_, _)
\* value of the longest prefix of digits of s, continuing from acc
LeadingDigits(s, acc) ==
    IF s = <<>> \/ ~IsDigit(Head(s)) THEN acc
    ELSE LeadingDigits(Tail(s), acc * 10 + DigitValue(Head(s)))

\* parseInt(string): the string is a sequence of characters
parseInt(s) ==
    IF s = <<>> \/ ~IsDigit(Head(s))
    THEN [isNaN |-> TRUE, value |-> 0]
    ELSE [isNaN |-> FALSE, value |-> LeadingDigits(s, 0)]

\* req.params.id
IdParams == {<<"1">>, <<"2">>, <<"3">>, <<"4">>, <<"a", "b", "c">>, <<"2", "x">>}

\* req.ip, null when the request carries none
RequestIps == IpAddresses \cup {NULL}

\* POST /api/projects/:id/upvote
PostUpvote(idParam, ip) ==
    LET parsed == parseInt(idParam)
        pid == parsed.value
        ipAddress == OrElse(ip, "unknown")
    IN  /\ UNCHANGED <<now, dps, ret, calls, wizard>>
        /\ dispatch' = <<>>
        /\ IF parsed.isNaN
           THEN /\ response' = [status |-> 400, message |-> "Invalid project ID"]
                /\ UNCHANGED storeVars
           ELSE IF pid \notin DOMAIN projects
           THEN /\ response' = [status |-> 404, message |-> "Project not found"]
                /\ UNCHANGED storeVars
           ELSE IF hasUserUpvoted(Store, pid, ipAddress)
           THEN /\ response' = [status |-> 400,
                                message |-> "You have already upvoted this project"]
                /\ UNCHANGED storeVars
           ELSE \E T \in {createUpvote(Store,
                              [projectId |-> pid, ipAddress |-> ipAddress, userId |-> NULL])} :
                    /\ WithinBounds(T)
                    /\ SetStore(T)
                    /\ response' = [status |-> 200, message |-> "", body |-> T.projects[pid]]

\* req.body of POST /api/send-email; the last one carries no projectId
SendEmailBodies ==
    {[projectId |-> p, senderEmail |-> NULL, senderName |-> NULL, customContent |-> NULL] :
        p \in {1, 9}}
    \cup {[projectId |-> 1, senderEmail |-> "dana@example.com", senderName |-> "Dana",
           customContent |-> NULL]}
    \cup {[senderEmail |-> NULL, senderName |-> NULL, customContent |-> NULL]}

\* insertEmailSchema.parse: projectId is required, the other fields are optional
insertEmailSchema_parse(body) ==
    IF "projectId" \in DOMAIN body
    THEN [success |-> TRUE, data |-> body]
    ELSE [success |-> FALSE, message |-> "Validation error: Required at \"projectId\""]

\* what happens to a message handed to sendEmail: the process simulates
\* sending, or transporter.sendMail resolves (error is NULL) or throws
Transports ==
    {[simulate |-> TRUE, error |-> NULL],
     [simulate |-> FALSE, error |-> NULL],
     [simulate |-> FALSE, error |-> "Connection refused"]}

sendEmail(transport) ==
    IF transport.simulate
    THEN [success |-> TRUE, message |-> "Email simulation successful"]
    ELSE IF transport.error = NULL
    THEN [success |-> TRUE, message |-> "Email sent successfully"]
    ELSE [success |-> FALSE, message |-> "Failed to send email: Connection refused"]

\* the message the handler hands to sendEmail: its text is the custom content
\* or, without one, the project's template
mailOptions(validatedData) ==
    [projectId |-> validatedData.projectId,
     customContent |-> OrElse(validatedData.customContent, NULL),
     senderName |-> validatedData.senderName]

\* POST /api/send-email, recording the email before looking at the result
PostSendEmail_RecordFirst(body, transport) ==
    LET validated == insertEmailSchema_parse(body)
        result == sendEmail(transport)
        reached == validated.success /\ validated.data.projectId \in DOMAIN projects
    IN  /\ UNCHANGED <<now, dps, ret, calls, wizard>>
        /\ dispatch' = IF reached THEN <<mailOptions(validated.data)>> ELSE <<>>
        /\ IF ~validated.success
           THEN /\ response' = [status |-> 400, message |-> validated.message]
                /\ UNCHANGED storeVars
           ELSE IF validated.data.projectId \notin DOMAIN projects
           THEN /\ response' = [status |-> 404, message |-> "Project not found"]
                /\ UNCHANGED storeVars
           ELSE \E T \in {createEmail(Store, validated.data)} :
                    /\ WithinBounds(T)
                    /\ SetStore(T)
                    /\ response' = IF ~result.success
                                   THEN [status |-> 500, message |-> result.message]
                                   ELSE [status |-> 201, message |-> "",
                                         body |-> T.emails[emailId]]

\* POST /api/send-email
PostSendEmail(body, transport) ==
    LET validated == insertEmailSchema_parse(body)
        result == sendEmail(transport)
        reached == validated.success /\ validated.data.projectId \in DOMAIN projects
    IN  /\ UNCHANGED <<now, dps, ret, calls, wizard>>
        /\ dispatch' = IF reached THEN <<mailOptions(validated.data)>> ELSE <<>>
        /\ IF ~validated.success
           THEN /\ response' = [status |-> 400, message |-> validated.message]
                /\ UNCHANGED storeVars
           ELSE IF validated.data.projectId \notin DOMAIN projects
           THEN /\ response' = [status |-> 404, message |-> "Project not found"]
                /\ UNCHANGED storeVars
           ELSE IF ~result.success
           THEN /\ response' = [status |-> 500, message |-> result.message]
                /\ UNCHANGED storeVars
           ELSE \E T \in {createEmail(Store, validated.data)} :
                    /\ WithinBounds(T)
                    /\ SetStore(T)
                    /\ response' = [status |-> 201, message |-> "",
                                    body |-> T.emails[emailId]]

\* GET /api/projects/:id
GetProject(idParam) ==
    LET parsed == parseInt(idParam)
        read == getProjectById(Store, parsed.value)
    IN  /\ UNCHANGED <<now, dps, ret, calls, wizard>>
        /\ dispatch' = <<>>
        /\ IF parsed.isNaN
           THEN /\ response' = [status |-> 400, message |-> "Invalid project ID"]
                /\ UNCHANGED storeVars
           ELSE /\ SetStore(read.store)
                /\ response' = IF ~read.value.found
                               THEN [status |-> 404, message |-> "Project not found"]
                               ELSE [status |-> 200, message |-> "",
                                     body |-> read.value.value]

issueTypeEnum == {"crosswalk", "pothole", "sidewalk", "streetlight", "other"}

\* req.body of POST /api/projects: a complete one, one that also carries the
\* fields the schema omits, one without a title, one of an unknown issue type
ProjectBodies ==
    InsertProjects
    \cup {Spread(insertProject, [id |-> 1, upvotes |-> 99, progressStatus |-> "completed"]) :
            insertProject \in InsertProjects}
    \cup {[description |-> "The lamp at the corner has been out for weeks.",
           issueType |-> "streetlight", location |-> "Elm Street", createdBy |-> NULL],
          [title |-> "Graffiti on the bridge", description |-> "Tags on both piers.",
           issueType |-> "graffiti", location |-> "Canal Bridge", createdBy |-> NULL]}

\* the fields of insertProjectSchema that projects of the model carry
insertProjectFields == {"title", "description", "issueType", "location", "createdBy"}

\* insertProjectSchema.parse: the required fields are present, issueType is
\* of the enum, and the fields the schema does not have are stripped
insertProjectSchema_parse(body) ==
    IF ~({"title", "description", "issueType", "location"} \subseteq DOMAIN body)
    THEN [success |-> FALSE, message |-> "Validation error: Required"]
    ELSE IF body.issueType \notin issueTypeEnum
    THEN [success |-> FALSE, message |-> "Validation error: Invalid enum value"]
    ELSE [success |-> TRUE,
          data |-> [f \in (DOMAIN body) \cap insertProjectFields |-> body[f]]]

\* POST /api/projects
PostProject(body) ==
    LET validated == insertProjectSchema_parse(body)
    IN  /\ UNCHANGED <<now, dps, ret, calls, wizard>>
        /\ dispatch' = <<>>
        /\ IF ~validated.success
           THEN /\ response' = [status |-> 400, message |-> validated.message]
                /\ UNCHANGED storeVars
           ELSE \E T \in {createProject(Store, validated.data)} :
                    /\ WithinBounds(T)
                    /\ SetStore(T)
                    /\ response' = [status |-> 201, message |-> "",
                                    body |-> T.projects[projectId]]

NextHttp ==
    \/ \E idParam \in IdParams, ip \in RequestIps : PostUpvote(idParam, ip)
    \/ \E body \in SendEmailBodies, transport \in Transports : PostSendEmail(body, transport)

SpecHttp == Init /\ [][NextHttp]_vars

\* the four handlers that validate their input
SpecRequests ==
    Init /\ [][\/ NextHttp
               \/ \E idParam \in IdParams : GetProject(idParam)
               \/ \E body \in ProjectBodies : PostProject(body)]_vars

---------------------------------------------------------------------------
(* POST /api/projects/:id/upvote handled concurrently: a handler runs from *)
(* one await to the next, and a store method it calls runs to that         *)
(* method's first await before the handler is suspended.                   *)

\* a request arrives: the handler runs to `await storage.getProjectById`
PostUpvoteArrives(c, idParam, ip) ==
    LET parsed == parseInt(idParam)
    IN  /\ calls[c].pc = "ready"
        /\ IF parsed.isNaN
           THEN /\ response' = [status |-> 400, message |-> "Invalid project ID"]
                /\ calls' = [calls EXCEPT ![c] = [pc |-> "responded"]]
           ELSE /\ calls' = [calls EXCEPT ![c] =
                      [pc |-> "getProjectById", projectId |-> parsed.value,
                       ipAddress |-> OrElse(ip, "unknown"),
                       project |-> getProjectById(Store, parsed.value).value]]
                /\ UNCHANGED response
        /\ UNCHANGED <<storeVars, now, dps, ret, dispatch, wizard>>

\* a suspended handler resumes and runs to its next await or to its response
PostUpvoteResumes(c) ==
    LET call == calls[c]
    IN  /\ UNCHANGED <<now, dps, ret, dispatch, wizard>>
        /\ CASE call.pc = "getProjectById" ->
                  IF ~call.project.found
                  THEN /\ response' = [status |-> 404, message |-> "Project not found"]
                       /\ calls' = [calls EXCEPT ![c] = [pc |-> "responded"]]
                       /\ UNCHANGED storeVars
                  ELSE /\ calls' = [calls EXCEPT ![c] =
                             [pc |-> "hasUserUpvoted", projectId |-> call.projectId,
                              ipAddress |-> call.ipAddress,
                              hasUpvoted |-> hasUserUpvoted(Store, call.projectId,
                                                            call.ipAddress)]]
                       /\ UNCHANGED <<storeVars, response>>
             [] call.pc = "hasUserUpvoted" ->
                  IF call.hasUpvoted
                  THEN /\ response' = [status |-> 400,
                                       message |-> "You have already upvoted this project"]
                       /\ calls' = [calls EXCEPT ![c] = [pc |-> "responded"]]
                       /\ UNCHANGED storeVars
                  ELSE \E T \in {createUpvoteToAwait(Store,
                                    [projectId |-> call.projectId,
                                     ipAddress |-> call.ipAddress, userId |-> NULL])} :
                          /\ SetStore(T.store)
                          /\ calls' = [calls EXCEPT ![c] =
                                [pc |-> "createUpvote", projectId |-> call.projectId,
                                 create |-> [pc |-> T.pc, op |-> T.op, row |-> T.row,
                                             project |-> T.project]]]
                          /\ UNCHANGED response
             [] call.pc = "createUpvote" ->
                  /\ SetStore(IF call.create.pc = "awaiting"
                              THEN afterAwait(Store, call.create) ELSE Store)
                  /\ calls' = [calls EXCEPT ![c] =
                        [pc |-> "updatedProject", projectId |-> call.projectId]]
                  /\ UNCHANGED response
             [] call.pc = "updatedProject" ->
                  /\ response' = [status |-> 200, message |-> "",
                                  body |-> getProjectById(Store, call.projectId).value]
                  /\ calls' = [calls EXCEPT ![c] = [pc |-> "responded"]]
                  /\ UNCHANGED storeVars
             [] OTHER -> FALSE

SpecRace ==
    Init /\ [][\/ \E c \in 1..MaxCalls, ip \in IpAddresses :
                     \E idParam \in {<<"2">>, <<"4">>, <<"a", "b", "c">>} :
                         PostUpvoteArrives(c, idParam, ip)
               \/ \E c \in 1..MaxCalls : PostUpvoteResumes(c)]_vars

---------------------------------------------------------------------------
(* GET /api/projects.  A query parameter is absent (undefined), a string,  *)
(* or, when the query string gives it more than once, an array.            *)

\* value && typeof value === "string"
IsNonEmptyString(value) == value.type = "string" /\ value.text # <<"">>

\* the query GET /api/projects with the issue type tested before the search
queryProjects_TypeFirst(S, search, issueType, status) ==
    IF IsNonEmptyString(issueType) THEN getProjectsByType(S, issueType.text[1])
    ELSE IF IsNonEmptyString(search) THEN searchProjects(S, search.text[1])
    ELSE IF IsNonEmptyString(status) THEN getProjectsByStatus(S, status.text[1])
    ELSE getAllProjects(S)

\* the query GET /api/projects makes for req.query
queryProjects(S, search, issueType, status) ==
    IF IsNonEmptyString(search) THEN searchProjects(S, search.text[1])
    ELSE IF IsNonEmptyString(issueType) THEN getProjectsByType(S, issueType.text[1])
    ELSE IF IsNonEmptyString(status) THEN getProjectsByStatus(S, status.text[1])
    ELSE getAllProjects(S)

\* the values of a query parameter: absent, given once, given twice
QueryValues(texts) ==
    {[type |-> "undefined"], [type |-> "array"]}
    \cup {[type |-> "string", text |-> <<text>>] : text \in texts}

\* GET /api/projects
GetProjects(search, issueType, status) ==
    /\ \E read \in {queryProjects(Store, search, issueType, status)} :
          /\ SetStore(read.store)
          /\ response' = [status |-> 200, message |-> "", body |-> read.value]
          /\ ret' = Returned("GET /api/projects", <<search, issueType, status>>, read.value)
    /\ dispatch' = <<>>
    /\ UNCHANGED <<now, dps, calls, wizard>>

SpecBoard ==
    Init /\ [][\/ \E search \in QueryValues({"", "oak", "Street"}),
                     issueType \in QueryValues({"sidewalk", "pothole"}),
                     status \in QueryValues({"idea_submitted"}) :
                     GetProjects(search, issueType, status)
               \/ \E insertProject \in InsertProjects : ApiCreateProject(insertProject)
               \/ \E call \in ApiUpdateProjectCalls : ApiUpdateProject(call[1], call[2])
               \/ \E insertUpvote \in ApiInsertUpvotes : ApiCreateUpvote(insertUpvote)]_vars

---------------------------------------------------------------------------
(* The issue submission wizard, IssueSubmissionModal.  The variable wizard  *)
(* holds the component's isOpen prop, its state and its two mutations; an   *)
(* event runs one handler, and a mutation settles when the answer to its    *)
(* request arrives.                                                         *)

\* the parent opens the modal
Open ==
    /\ ~wizard.isOpen
    /\ wizard' = [wizard EXCEPT !.isOpen = TRUE]
    /\ UNCHANGED <<storeVars, now, response, dps, ret, dispatch, calls>>

\* the user types into the form of the details step
handleInputChange(formData) ==
    /\ wizard.isOpen /\ wizard.currentStep = "details"
    /\ wizard' = [wizard EXCEPT !.formData = formData]
    /\ UNCHANGED <<storeVars, now, response, dps, ret, dispatch, calls>>

\* the form of the details step is submitted
handleGenerateEmail ==
    /\ wizard.isOpen /\ wizard.currentStep = "details"
    /\ ~wizard.generateEmailMutation.isPending
    /\ IF \E field \in {"title", "description", "issueType", "location"} :
             wizard.formData[field] = ""
       THEN UNCHANGED wizard
       ELSE wizard' = [wizard EXCEPT !.generateEmailMutation = [isPending |-> TRUE]]
    /\ UNCHANGED <<storeVars, now, response, dps, ret, dispatch, calls>>

\* Back to Details
handleBackToDetails ==
    /\ wizard.isOpen /\ wizard.currentStep = "email"
    /\ ~wizard.createProjectMutation.isPending
    /\ wizard' = [wizard EXCEPT !.currentStep = "details"]
    /\ UNCHANGED <<storeVars, now, response, dps, ret, dispatch, calls>>

\* Regenerate
Regenerate ==
    /\ wizard.isOpen /\ wizard.currentStep = "email"
    /\ ~wizard.generateEmailMutation.isPending
    /\ ~wizard.createProjectMutation.isPending
    /\ wizard' = [wizard EXCEPT !.generateEmailMutation = [isPending |-> TRUE]]
    /\ UNCHANGED <<storeVars, now, response, dps, ret, dispatch, calls>>

\* Send Email: the request carries the form and the draft of this render
handleSendEmail ==
    /\ wizard.isOpen /\ wizard.currentStep = "email"
    /\ ~wizard.createProjectMutation.isPending
    /\ wizard' = [wizard EXCEPT !.createProjectMutation =
                     [isPending |-> TRUE,
                      projectData |-> Spread(wizard.formData,
                                             [emailTemplate |-> wizard.emailTemplate.emailBody,
                                              createdBy |-> NULL])]]
    /\ UNCHANGED <<storeVars, now, response, dps, ret, dispatch, calls>>

\* the dialog is dismissed, or the success view is closed
handleCloseAll ==
    /\ wizard.isOpen
    /\ wizard' = [wizard EXCEPT !.isOpen = FALSE,
                                !.currentStep = "details",
                                !.formData = useState.formData,
                                !.emailTemplate = useState.emailTemplate,
                                !.submittedProject = [found |-> FALSE]]
    /\ UNCHANGED <<storeVars, now, response, dps, ret, dispatch, calls>>

\* the answer to POST /api/generate-email arrives: a draft, or an error
generateEmailMutation_settles(ok, data) ==
    /\ wizard.generateEmailMutation.isPending
    /\ wizard' = IF ok
                 THEN [wizard EXCEPT !.generateEmailMutation = [isPending |-> FALSE],
                                     !.emailTemplate = data,
                                     !.currentStep = "email"]
                 ELSE [wizard EXCEPT !.generateEmailMutation = [isPending |-> FALSE]]
    /\ UNCHANGED <<storeVars, now, response, dps, ret, dispatch, calls>>

\* POST /api/projects handles the request and its answer arrives: the
\* created project, or an error
createProjectMutation_settles ==
    LET validated == insertProjectSchema_parse(wizard.createProjectMutation.projectData)
    IN  /\ wizard.createProjectMutation.isPending
        /\ UNCHANGED <<now, dps, ret, calls>>
        /\ dispatch' = <<>>
        /\ IF ~validated.success
           THEN /\ response' = [status |-> 400, message |-> validated.message]
                /\ UNCHANGED storeVars
                /\ wizard' = [wizard EXCEPT !.createProjectMutation = [isPending |-> FALSE]]
           ELSE \E T \in {createProject(Store, validated.data)} :
                    /\ WithinBounds(T)
                    /\ SetStore(T)
                    /\ response' = [status |-> 201, message |-> "",
                                    body |-> T.projects[projectId]]
                    /\ wizard' = [wizard EXCEPT
                                     !.createProjectMutation = [isPending |-> FALSE],
                                     !.submittedProject =
                                        [found |-> TRUE, value |-> T.projects[projectId]],
                                     !.currentStep = "success"]

\* the wizard and its server: the form is empty or has its required fields
\* filled in, and each email generation request gets one of two drafts
SpecWizard ==
    Init /\ [][\/ Open
               \/ \E formData \in {useState.formData,
                                   [title |-> "Dark Street Light on Elm",
                                    description |-> "The lamp at the corner has been out for weeks.",
                                    issueType |-> "streetlight",
                                    location |-> "Elm Street"]} :
                     handleInputChange(formData)
               \/ handleGenerateEmail
               \/ handleBackToDetails
               \/ Regenerate
               \/ handleSendEmail
               \/ handleCloseAll
               \/ \E ok \in BOOLEAN,
                     emailBody \in {"Dear Public Works Department, ...",
                                    "To whom it may concern, ..."} :
                     generateEmailMutation_settles(ok,
                        [emailBody |-> emailBody,
                         emailSubject |-> "Street light out on Elm Street",
                         emailTo |-> "publicworks@cityname.gov"])
               \/ createProjectMutation_settles]_vars

---------------------------------------------------------------------------
(* Properties.                                                             *)

\* number of rows of a collection that reference project p
RowsOf(rows, p) == Cardinality({k \in DOMAIN rows : rows[k].projectId = p})

\* the steps that consume an id of a collection
IsCreateProjectStep == projectId' # projectId
IsCreateUpvoteStep == upvoteId' # upvoteId
IsCreateEmailStep == emailId' # emailId
IsCreateCommentStep == commentId' # commentId
IsCreateStep ==
    IsCreateProjectStep \/ IsCreateUpvoteStep \/ IsCreateEmailStep \/ IsCreateCommentStep

\* a direct updateProject call
IsDirectUpdateStep == \E call \in UpdateProjectCalls : CallUpdateProject(call[1], call[2])

\* the transition function of the state machine as the design states it
nextStatus(nUpvotes, nEmailsSent, currentStatus) ==
    CASE currentStatus \in LateStatuses -> currentStatus
      [] currentStatus \notin LateStatuses /\ nEmailsSent >= 50 -> "email_campaign_active"
      [] currentStatus \notin LateStatuses /\ nEmailsSent < 50 /\ nUpvotes >= 25 -> "community_support"
      [] currentStatus \notin LateStatuses /\ nEmailsSent < 50 /\ nUpvotes < 25 -> "idea_submitted"

(* C1: in every reachable state, the constructor's included, every project's
   upvotes counter equals the number of Upvote rows that reference it. *)
C1_UpvotesEqualRows ==
    \A p \in DOMAIN projects : projects[p].upvotes = RowsOf(upvotes, p)

(* C2: in every reachable state, the constructor's included, every project's
   emailsSent counter equals the number of Email rows that reference it. *)
C2_EmailsSentEqualRows ==
    \A p \in DOMAIN projects : projects[p].emailsSent = RowsOf(emails, p)

\* no Upvote row is stored for the pair
C3_NoUpvoteRowFor(pid, ipAddress) ==
    \A k \in DOMAIN upvotes :
        ~(upvotes[k].projectId = pid /\ upvotes[k].ipAddress = ipAddress)

\* no two Upvote rows share a (projectId, ipAddress) pair
C3_OneRowPerPair ==
    \A j, k \in DOMAIN upvotes :
        (upvotes[j].projectId = upvotes[k].projectId
            /\ upvotes[j].ipAddress = upvotes[k].ipAddress) => j = k

(* C3: with upvote requests handled one at a time, no two Upvote rows share a
   (projectId, ipAddress) pair, and a request for a project from an address
   that already has a row for it is refused with status 400 and leaves the
   whole store (rows, counters, activities) as it was. *)
C3_DuplicateUpvoteRefused ==
    [][/\ C3_OneRowPerPair'
       /\ \A idParam \in IdParams, ip \in RequestIps :
            (/\ PostUpvote(idParam, ip)
             /\ ~parseInt(idParam).isNaN
             /\ ~C3_NoUpvoteRowFor(parseInt(idParam).value, OrElse(ip, "unknown")))
            => (response'.status = 400 /\ UNCHANGED storeVars)]_vars

\* a duplicate request has been refused while the first one's row is stored
C3_Witness ==
    /\ response.status = 400
    /\ response.message = "You have already upvoted this project"
    /\ \E k \in DOMAIN upvotes : projects[upvotes[k].projectId].upvotes
                                      = constructor.projects[upvotes[k].projectId].upvotes + 1

(* C4: a createUpvote or createEmail call never changes the progressStatus of
   a project that is in official_acknowledgment, planning_stage,
   implementation or completed. *)
C4_LateStatusKept ==
    [][(IsCreateUpvoteStep \/ IsCreateEmailStep) =>
         \A p \in DOMAIN projects :
            projects[p].progressStatus \in LateStatuses
                => projects'[p].progressStatus = projects[p].progressStatus]_vars

\* a project in a late status has been upvoted and has received an email
C4_Witness ==
    \E p \in DOMAIN projects :
        /\ projects[p].progressStatus \in LateStatuses
        /\ RowsOf(upvotes, p) > 0
        /\ RowsOf(emails, p) > 0

(* C5, as claimed: no store operation, updateProject included, ever sets a
   project's progressStatus to one earlier in the promotion order. *)
C5_StatusNeverLowered ==
    [][\A p \in DOMAIN projects :
         StatusRank(projects'[p].progressStatus) >= StatusRank(projects[p].progressStatus)]_vars

\* the status of a project is one its counters give it
C5_Backed(project) ==
    \/ project.progressStatus \in LateStatuses
    \/ project.progressStatus = "idea_submitted"
    \/ project.progressStatus = "community_support" /\ project.upvotes >= 25
    \/ project.progressStatus = "email_campaign_active" /\ project.emailsSent >= 50

(* C5, amended: createProject, createUpvote, createEmail and createComment
   never lower the progressStatus of a project whose status its counters back
   (a late status, idea_submitted, community_support with upvotes >= 25,
   email_campaign_active with emailsSent >= 50); a direct updateProject call
   can set any status, an earlier one included. *)
C5_CreatesNeverLowerBackedStatus ==
    [][IsCreateStep =>
         \A p \in DOMAIN projects :
            C5_Backed(projects[p]) =>
                StatusRank(projects'[p].progressStatus)
                    >= StatusRank(projects[p].progressStatus)]_vars

\* a project that started in idea_submitted was promoted by an upvote, with
\* no status its counters do not back anywhere
C5_Witness ==
    /\ \A p \in DOMAIN projects : C5_Backed(projects[p])
    /\ \E p \in DOMAIN projects :
          /\ projects[p].progressStatus = "community_support"
          /\ constructor.projects[p].progressStatus = "idea_submitted"
          /\ RowsOf(upvotes, p) > 0

(* C6: determineProgressStatus returns, for every input, what the design's
   transition function gives: the current status when it is one of the four
   late ones, else email_campaign_active from 50 emails on, else
   community_support from 25 upvotes on, else idea_submitted; the result is
   one of the seven statuses and the store is left as it was. *)
C6_DetermineIsNextStatus ==
    dps.called =>
        /\ dps.result = nextStatus(dps.upvotes, dps.emailsSent, dps.currentStatus)
        /\ dps.result \in StatusSet
        /\ Store = constructor

\* the tie-break case: 30 upvotes and 60 emails give email_campaign_active
C6_Witness ==
    /\ dps.called
    /\ dps.upvotes = 30 /\ dps.emailsSent = 60 /\ dps.currentStatus = "idea_submitted"
    /\ dps.result = "email_campaign_active"

\* a step adds no project and changes none but p
C7_OthersKept(p) ==
    /\ DOMAIN projects' = DOMAIN projects
    /\ \A q \in DOMAIN projects \ {p} : projects'[q] = projects[q]

(* C7: a createUpvote (createEmail) call on an existing project raises its
   upvotes (emailsSent) by exactly 1, leaves its other counter and every other
   project as they were, and leaves its progressStatus equal to the transition
   function applied to the counts after the increment and the status before
   the call. *)
C7_CreateIncrementsAndReevaluates ==
    [][/\ (IsCreateUpvoteStep /\ upvotes'[upvoteId].projectId \in DOMAIN projects) =>
            LET p == upvotes'[upvoteId].projectId
            IN /\ projects'[p].upvotes = projects[p].upvotes + 1
               /\ projects'[p].emailsSent = projects[p].emailsSent
               /\ projects'[p].progressStatus =
                     nextStatus(projects[p].upvotes + 1, projects[p].emailsSent,
                                projects[p].progressStatus)
               /\ C7_OthersKept(p)
       /\ (IsCreateEmailStep /\ emails'[emailId].projectId \in DOMAIN projects) =>
            LET p == emails'[emailId].projectId
            IN /\ projects'[p].emailsSent = projects[p].emailsSent + 1
               /\ projects'[p].upvotes = projects[p].upvotes
               /\ projects'[p].progressStatus =
                     nextStatus(projects[p].upvotes, projects[p].emailsSent + 1,
                                projects[p].progressStatus)
               /\ C7_OthersKept(p)]_vars

\* the 25th upvote of a project has been created and has promoted it
C7_Witness ==
    \E p \in DOMAIN projects :
        /\ RowsOf(upvotes, p) > 0
        /\ projects[p].upvotes = 25
        /\ projects[p].progressStatus = "community_support"

(* C8: no createProject, createUpvote, createEmail or createComment call takes
   a project from idea_submitted, community_support or email_campaign_active
   to official_acknowledgment, planning_stage, implementation or completed,
   and none creates a project in one of these; a step that does is a direct
   updateProject call. *)
C8_LateOnlyByUpdateProject ==
    [][(\E p \in DOMAIN projects' :
            /\ projects'[p].progressStatus \in LateStatuses
            /\ p \in DOMAIN projects => projects[p].progressStatus \in EarlyStatuses)
         => (IsDirectUpdateStep /\ ~IsCreateStep)]_vars

\* a project that started early is in a late status, and has been upvoted since
C8_Witness ==
    \E p \in DOMAIN projects :
        /\ projects[p].progressStatus = "completed"
        /\ constructor.projects[p].progressStatus \in EarlyStatuses
        /\ RowsOf(upvotes, p) > 0

\* the activities of type ty a step appends for project p
NewActivities(p, ty) ==
    {k \in (DOMAIN activities') \ (DOMAIN activities) :
        activities'[k].projectId = p /\ activities'[k].activityType = ty}

AllNewActivities(p) ==
    {k \in (DOMAIN activities') \ (DOMAIN activities) : activities'[k].projectId = p}

FieldsChanged(p) ==
    \/ projects'[p].upvotes # projects[p].upvotes
    \/ projects'[p].emailsSent # projects[p].emailsSent
    \/ projects'[p].progressStatus # projects[p].progressStatus

CommentStepRecordsOne ==
    IsCreateCommentStep =>
        /\ Cardinality((DOMAIN activities') \ (DOMAIN activities)) = 1
        /\ \A k \in (DOMAIN activities') \ (DOMAIN activities) :
              /\ activities'[k].activityType = "comment_added"
              /\ activities'[k].projectId = comments'[commentId].projectId
        /\ projects' = projects

(* C9, as claimed: every operation that changes a project's upvotes,
   emailsSent or progressStatus appends exactly one activity for that project;
   createComment appends exactly one activity, of type comment_added, and
   changes none of the three fields. *)
C9_OneActivityPerChange ==
    [][/\ \A p \in DOMAIN projects :
            FieldsChanged(p) => Cardinality(AllNewActivities(p)) = 1
       /\ CommentStepRecordsOne]_vars

Count(b) == IF b THEN 1 ELSE 0

(* C9, amended: a createUpvote or createEmail call on an existing project
   appends exactly one upvote / email_sent activity for it, and any operation
   that changes a project's progressStatus appends exactly one status_change
   activity for it besides (two activities when an upvote or email crosses a
   threshold); a direct updateProject call that changes only upvotes or
   emailsSent appends none; createComment appends exactly one activity, of
   type comment_added, and changes none of the three fields. *)
C9_ActivitiesPerOperation ==
    [][/\ \A p \in DOMAIN projects :
            LET upvoted == IsCreateUpvoteStep /\ upvotes'[upvoteId].projectId = p
                emailed == IsCreateEmailStep /\ emails'[emailId].projectId = p
                commented == IsCreateCommentStep /\ comments'[commentId].projectId = p
                statusChanged == projects'[p].progressStatus # projects[p].progressStatus
            IN /\ Cardinality(NewActivities(p, "upvote")) = Count(upvoted)
               /\ Cardinality(NewActivities(p, "email_sent")) = Count(emailed)
               /\ Cardinality(NewActivities(p, "status_change")) = Count(statusChanged)
               /\ Cardinality(AllNewActivities(p)) =
                     Count(upvoted) + Count(emailed) + Count(statusChanged) + Count(commented)
               /\ projects'[p].upvotes # projects[p].upvotes /\ ~upvoted
                     => IsDirectUpdateStep /\ AllNewActivities(p) = {}
               /\ projects'[p].emailsSent # projects[p].emailsSent /\ ~emailed
                     => IsDirectUpdateStep /\ AllNewActivities(p) = {}
       /\ CommentStepRecordsOne]_vars

\* an email that crossed the threshold has left two activities for its project
C9_Witness ==
    \E p \in DOMAIN projects, k \in DOMAIN activities :
        /\ k + 1 \in DOMAIN activities
        /\ k >= constructor.activityId
        /\ activities[k].projectId = p /\ activities[k].activityType = "status_change"
        /\ activities[k + 1].projectId = p /\ activities[k + 1].activityType = "email_sent"
        /\ projects[p].progressStatus = "email_campaign_active"

(* C10: a step appends a status_change activity for project P exactly when it
   changes P's progressStatus to a different value, it appends one only, and
   the description of that activity names the new status. *)
C10_StatusChangeIffChanged ==
    [][/\ \A p \in DOMAIN projects :
            LET new == NewActivities(p, "status_change")
            IN IF projects'[p].progressStatus # projects[p].progressStatus
               THEN /\ Cardinality(new) = 1
                    /\ \A k \in new :
                          activities'[k].description =
                             <<"Project status updated to: ", projects'[p].progressStatus>>
               ELSE new = {}
       /\ \A k \in (DOMAIN activities') \ (DOMAIN activities) :
            activities'[k].activityType = "status_change"
                => activities'[k].projectId \in DOMAIN projects]_vars

\* the upvote that took a project to 25 upvotes recorded a status_change
\* naming community_support, just before its own upvote activity
C10_Witness ==
    \E p \in DOMAIN projects, k \in DOMAIN activities :
        /\ k >= constructor.activityId
        /\ activities[k].projectId = p
        /\ activities[k].activityType = "status_change"
        /\ activities[k].description = <<"Project status updated to: ", "community_support">>
        /\ projects[p].upvotes = 25
        /\ k + 1 \in DOMAIN activities
        /\ activities[k + 1].activityType = "upvote"

\* the activities of a store's map that reference project p
ActivitiesOf(acts, p) == {k \in DOMAIN acts : acts[k].projectId = p}

\* the projects that createProject stored (the constructor stored the others)
CreatedProjects == (DOMAIN projects) \ (DOMAIN constructor.projects)

(* C11: every createProject call appends exactly one activity, of type
   project_created and with the new project's id as projectId, and for every
   project that createProject stored this activity has a smaller id than every
   other activity that references the project. *)
C11_ProjectCreatedFirst ==
    [][/\ IsCreateProjectStep =>
            /\ (DOMAIN activities') \ (DOMAIN activities) = {activityId}
            /\ activities'[activityId].activityType = "project_created"
            /\ activities'[activityId].projectId = projectId
            /\ projectId \in DOMAIN projects' /\ projectId \notin DOMAIN projects
       /\ \A p \in CreatedProjects' :
            \E a \in ActivitiesOf(activities', p) :
                /\ activities'[a].activityType = "project_created"
                /\ \A b \in ActivitiesOf(activities', p) \ {a} : a < b]_vars

(* C12: every project createProject returns has upvotes 0, emailsSent 0 and
   progressStatus idea_submitted, and the id the store issued, whatever the
   input carries (upvotes, emailsSent, progressStatus and id in the input do
   not override them); the returned project is the stored one. *)
C12_CreateProjectDefaults ==
    ret.op = "createProject" =>
        /\ ret.value.upvotes = 0
        /\ ret.value.emailsSent = 0
        /\ ret.value.progressStatus = "idea_submitted"
        /\ ret.value.id = projectId - 1
        /\ projects[projectId - 1] = ret.value

\* createProject has returned for an input that carried upvotes, emailsSent,
\* progressStatus and id
C12_Witness ==
    /\ ret.op = "createProject"
    /\ {"id", "upvotes", "emailsSent", "progressStatus"} \subseteq DOMAIN ret.args[1]
    /\ ret.args[1].upvotes = 99 /\ ret.args[1].progressStatus = "completed"
    /\ ret.value.upvotes = 0 /\ ret.value.id = 4

\* the keys of a collection are 1 .. next - 1 and every record has its key as id
IdsSequential(m, next) ==
    /\ DOMAIN m = 1..(next - 1)
    /\ \A k \in DOMAIN m : m[k].id = k

AllIdsSequential ==
    /\ IdsSequential(users, userId)
    /\ IdsSequential(projects, projectId)
    /\ IdsSequential(upvotes, upvoteId)
    /\ IdsSequential(emails, emailId)
    /\ IdsSequential(activities, activityId)
    /\ IdsSequential(comments, commentId)

\* a create call returned a record with the id that was next, stored it under
\* that id, which no record had, and advanced the counter by one
IssuedNext(op, m, next, mAfter, nextAfter) ==
    ret'.op = op =>
        /\ ret'.value.id = next
        /\ next \notin DOMAIN m
        /\ mAfter[next] = ret'.value
        /\ nextAfter = next + 1

(* C13: in each of the six collections the keys are 1, 2, ... up to the last
   id issued and every stored record is keyed by its own id, the constructor's
   sample records included; every create call returns the id one greater than
   the last id issued for its collection, an id no record had, and no step
   removes a record or takes a counter back. *)
C13_IdsSequential ==
    [][/\ AllIdsSequential /\ AllIdsSequential'
       /\ IssuedNext("createUser", users, userId, users', userId')
       /\ IssuedNext("createProject", projects, projectId, projects', projectId')
       /\ IssuedNext("createUpvote", upvotes, upvoteId, upvotes', upvoteId')
       /\ IssuedNext("createEmail", emails, emailId, emails', emailId')
       /\ IssuedNext("createActivity", activities, activityId, activities', activityId')
       /\ IssuedNext("createComment", comments, commentId, comments', commentId')
       /\ userId' >= userId /\ projectId' >= projectId /\ upvoteId' >= upvoteId
       /\ emailId' >= emailId /\ activityId' >= activityId /\ commentId' >= commentId]_vars

\* records were created after the sample ones: a user, a project, and a
\* comment that createComment returned with the id after the sample comments'
C13_Witness ==
    /\ ret.op = "createComment" /\ ret.value.id = constructor.commentId
    /\ 1 \in DOMAIN users
    /\ constructor.projectId \in DOMAIN projects
    /\ activityId = constructor.activityId + 2

(* C14: getCommunityStats returns, in every reachable state, activeIssues =
   the number of projects whose progressStatus is not completed,
   issuesResolved = the number whose progressStatus is completed (the two add
   up to the number of projects) and emailsSent = the number of Email rows,
   whatever the projects' emailsSent counters add up to. *)
C14_StatsCountProjectsAndEmails ==
    ret.op = "getCommunityStats" =>
        /\ ret.value.activeIssues =
              Cardinality({p \in DOMAIN projects : projects[p].progressStatus # "completed"})
        /\ ret.value.issuesResolved =
              Cardinality({p \in DOMAIN projects : projects[p].progressStatus = "completed"})
        /\ ret.value.activeIssues + ret.value.issuesResolved = Cardinality(DOMAIN projects)
        /\ ret.value.emailsSent = Cardinality(DOMAIN emails)

\* the stats were read with a project completed and one Email row stored,
\* while the projects' emailsSent counters add up to more than a hundred
C14_Witness ==
    /\ ret.op = "getCommunityStats"
    /\ ret.value.issuesResolved = 1 /\ ret.value.activeIssues = 2
    /\ ret.value.emailsSent = 1
    /\ SumOf(ArrayFromValues(projects), "emailsSent") = 38 + 12 + 52 + 1

\* issuesResolved / totalProjects * 100 rounded to the nearest integer, a
\* half going up, in exact arithmetic
ExactRoundedPercentage(issuesResolved, totalProjects) ==
    (200 * issuesResolved + totalProjects) \div (2 * totalProjects)

(* C15: getCommunityStats returns successRate = issuesResolved /
   totalProjects * 100 rounded to the nearest integer, an integer in 0..100,
   and 0 when there are no projects. *)
C15_SuccessRateIsRoundedPercentage ==
    ret.op = "getCommunityStats" =>
        /\ ret.value.successRate \in 0..100
        /\ ret.value.successRate =
              IF Cardinality(DOMAIN projects) = 0 THEN 0
              ELSE ExactRoundedPercentage(Completed, Cardinality(DOMAIN projects))

\* the read operations of the store
ReadOperations ==
    {"getUser", "getUserByUsername", "getAllProjects", "getProjectById",
     "getProjectsByType", "getProjectsByStatus", "searchProjects",
     "getUpvotesByProject", "hasUserUpvoted", "getEmailsByProject",
     "getRecentActivities", "getActivitiesByProject", "getCommentsByProject",
     "getCommunityStats"}

(* C16: a call of a read operation (getUser, getUserByUsername,
   getAllProjects, getProjectById, getProjectsByType, getProjectsByStatus,
   searchProjects, getUpvotesByProject, hasUserUpvoted, getEmailsByProject,
   getRecentActivities, getActivitiesByProject, getCommentsByProject,
   getCommunityStats) leaves the six collections, their records and the six
   id counters as they were; getProjectById returns the stored project for an
   id that has one and undefined for an id that has none. *)
C16_ReadsChangeNothing ==
    [][/\ ret'.op \in ReadOperations => UNCHANGED storeVars
       /\ ret'.op = "getProjectById" =>
            IF ret'.args[1] \in DOMAIN projects
            THEN ret'.value.found /\ ret'.value.value = projects[ret'.args[1]]
            ELSE ~ret'.value.found]_vars

\* after a project and an email were created, getProjectById was called for
\* an id no project has and returned undefined
C16_Witness ==
    /\ ret.op = "getProjectById"
    /\ ret.args[1] \notin DOMAIN projects
    /\ ~ret.value.found
    /\ projectId > constructor.projectId
    /\ emailId > constructor.emailId

\* the array holds the stored projects with ids in wanted, each once, with
\* upvotes that never increase from one element to the next
IsProjectListing(array, wanted) ==
    /\ Len(array) = Cardinality(wanted)
    /\ {array[i].id : i \in DOMAIN array} = wanted
    /\ \A i \in DOMAIN array : array[i] = projects[array[i].id]
    /\ \A i \in 1..(Len(array) - 1) : array[i].upvotes >= array[i + 1].upvotes

(* C17: getAllProjects returns every stored project exactly once,
   getProjectsByType(t) exactly the projects whose issueType is t and
   getProjectsByStatus(s) exactly those whose progressStatus is s; in each
   result the upvotes of a project are >= the upvotes of the one after it. *)
C17_ListingsCompleteAndSorted ==
    /\ ret.op = "getAllProjects" => IsProjectListing(ret.value, DOMAIN projects)
    /\ ret.op = "getProjectsByType" =>
          IsProjectListing(ret.value,
             {p \in DOMAIN projects : projects[p].issueType = ret.args[1]})
    /\ ret.op = "getProjectsByStatus" =>
          IsProjectListing(ret.value,
             {p \in DOMAIN projects : projects[p].progressStatus = ret.args[1]})

\* getAllProjects returned four projects, two of them with 45 upvotes, after
\* project 3 was brought level with project 1 and a project was created
C17_Witness ==
    /\ ret.op = "getAllProjects"
    /\ Len(ret.value) = 4
    /\ ret.value[1].upvotes = 45 /\ ret.value[2].upvotes = 45
    /\ ret.value[3].upvotes = 23 /\ ret.value[4].upvotes = 0

\* two characters are the same letter in either case, or the same character
SameIgnoringCase(a, b) ==
    \/ a = b
    \/ \E u \in DOMAIN UpperCaseLetters :
          {a, b} = {UpperCaseLetters[u], LowerCaseLetters[u]}

\* part occurs in text at some position, case ignored
ContainsIgnoringCase(text, part) ==
    \E start \in 1..(Len(text) - Len(part) + 1) :
        \A j \in 1..Len(part) : SameIgnoringCase(text[start + j - 1], part[j])

\* the projects a query matches
MatchingProjects(query) ==
    {p \in DOMAIN projects :
        \/ ContainsIgnoringCase(Chars(projects[p].title), Chars(query))
        \/ ContainsIgnoringCase(Chars(projects[p].description), Chars(query))
        \/ ContainsIgnoringCase(Chars(projects[p].location), Chars(query))}

(* C18: searchProjects(query) returns exactly the projects in whose title,
   description or location the query occurs with case ignored (every project
   for the empty query), each once, ordered by upvotes descending. *)
C18_SearchMatchesIgnoringCase ==
    ret.op = "searchProjects" =>
        /\ IsProjectListing(ret.value, MatchingProjects(ret.args[1]))
        /\ ret.args[1] = "" => Len(ret.value) = Cardinality(DOMAIN projects)

\* the query "Street" found the sample projects 3 and 2 and the created
\* project 4, in this order, and not project 1
C18_Witness ==
    /\ ret.op = "searchProjects"
    /\ ret.args[1] = "Street"
    /\ Len(ret.value) = 3
    /\ ret.value[1].id = 3 /\ ret.value[2].id = 2 /\ ret.value[3].id = 4

(* C19: for every limit >= 0, getRecentActivities(limit) returns
   min(limit, number of activities) records, which are the activities created
   last, ordered newest first: an activity with a larger id never comes after
   one with a smaller id, also when activities were created in the same call
   or the same millisecond. *)
C19_RecentActivitiesNewestFirst ==
    (ret.op = "getRecentActivities" /\ ret.args[1] >= 0) =>
        LET n == Cardinality(DOMAIN activities)
            count == IF ret.args[1] < n THEN ret.args[1] ELSE n
        IN /\ Len(ret.value) = count
           /\ {ret.value[i].id : i \in DOMAIN ret.value} = (n - count + 1)..n
           /\ \A i \in DOMAIN ret.value : ret.value[i] = activities[ret.value[i].id]
           /\ \A i \in 1..(Len(ret.value) - 1) : ret.value[i].id > ret.value[i + 1].id

\* the dispatcher is reached by the request and reports failure
C20_DispatchFails(body, transport) ==
    /\ insertEmailSchema_parse(body).success
    /\ body.projectId \in DOMAIN projects
    /\ ~sendEmail(transport).success

(* C20: a POST /api/send-email request whose dispatch reports failure is
   answered with status 500 and the dispatcher's message, and leaves the whole
   store as it was (no Email row, no change of any project's emailsSent or
   progressStatus, no activity); and a step that adds an Email row is a
   request whose dispatch reported success, answered with status 201. *)
C20_FailedDispatchRecordsNothing ==
    [][/\ \A body \in SendEmailBodies, transport \in Transports :
            (PostSendEmail(body, transport) /\ C20_DispatchFails(body, transport))
            => /\ response'.status = 500
               /\ response'.message = sendEmail(transport).message
               /\ UNCHANGED storeVars
       /\ (emails' # emails) =>
            /\ response'.status = 201
            /\ DOMAIN emails' = (DOMAIN emails) \cup {emailId}
            /\ \E body \in SendEmailBodies, transport \in Transports :
                    /\ PostSendEmail(body, transport)
                    /\ sendEmail(transport).success]_vars

\* a dispatch has failed after an earlier one succeeded: one row, one count
C20_Witness ==
    /\ response.status = 500
    /\ response.message = "Failed to send email: Connection refused"
    /\ DOMAIN emails = {1}
    /\ projects[1].emailsSent = constructor.projects[1].emailsSent + 1

\* the outcome of an operation that found no such project
C21_NotFound == [found |-> FALSE]

(* C21: a createUpvote, createEmail or createComment call that names a project
   id no stored project has returns a not-found outcome and leaves the whole
   store as it was: no Upvote, Email, Comment or Activity row is stored and no
   id counter advances. *)
C21_MissingProjectRefused ==
    [][/\ \A insertUpvote \in InsertUpvotes :
            (ApiCreateUpvote(insertUpvote) /\ insertUpvote.projectId \notin DOMAIN projects)
            => (ret'.value = C21_NotFound /\ UNCHANGED storeVars)
       /\ \A insertEmail \in InsertEmails :
            (ApiCreateEmail(insertEmail) /\ insertEmail.projectId \notin DOMAIN projects)
            => (ret'.value = C21_NotFound /\ UNCHANGED storeVars)
       /\ \A insertComment \in InsertComments :
            (ApiCreateComment(insertComment) /\ insertComment.projectId \notin DOMAIN projects)
            => (ret'.value = C21_NotFound /\ UNCHANGED storeVars)]_vars

\* the text is the decimal notation of a number
C22_IsNumber(s) == s # <<>> /\ \A i \in DOMAIN s : IsDigit(s[i])

\* the request is answered with a validation error, nothing stored or sent
C22_Refused == response'.status = 400 /\ UNCHANGED storeVars /\ dispatch' = <<>>

(* C22: a POST /api/projects or POST /api/send-email request whose body fails
   schema validation, and an upvote or get-project request whose id is not a
   number, is answered with status 400 while every collection, counter and
   project field stays as it was and no email is dispatched. *)
C22_InvalidRequestRefused ==
    [][/\ \A body \in ProjectBodies :
            (PostProject(body) /\ ~insertProjectSchema_parse(body).success) => C22_Refused
       /\ \A body \in SendEmailBodies, transport \in Transports :
            (PostSendEmail(body, transport) /\ ~insertEmailSchema_parse(body).success)
            => C22_Refused
       /\ \A idParam \in IdParams, ip \in RequestIps :
            (PostUpvote(idParam, ip) /\ ~C22_IsNumber(idParam)) => C22_Refused
       /\ \A idParam \in IdParams :
            (GetProject(idParam) /\ ~C22_IsNumber(idParam)) => C22_Refused]_vars

\* number of activities of a type that reference project p
C23_Activities(acts, p, ty) ==
    Cardinality({k \in DOMAIN acts : acts[k].projectId = p /\ acts[k].activityType = ty})

(* C23: createUpvote and createEmail are atomic for every other operation:
   whenever another call may run (before a call, at an await, after a return),
   every Upvote or Email row stored for an existing project has its counter
   increment, its status re-evaluation and its upvote / email_sent activity
   recorded with it. *)
C23_CreateIsAtomic ==
    \A p \in DOMAIN projects :
        /\ projects[p].upvotes = constructor.projects[p].upvotes + RowsOf(upvotes, p)
        /\ projects[p].emailsSent = constructor.projects[p].emailsSent + RowsOf(emails, p)
        /\ projects[p].progressStatus =
              determineProgressStatus(projects[p].upvotes, projects[p].emailsSent,
                                      projects[p].progressStatus)
        /\ C23_Activities(activities, p, "upvote")
              = C23_Activities(constructor.activities, p, "upvote") + RowsOf(upvotes, p)
        /\ C23_Activities(activities, p, "email_sent")
              = C23_Activities(constructor.activities, p, "email_sent") + RowsOf(emails, p)

\* number of calls of an operation on project p that found the project
C24_Calls(op, p) ==
    Cardinality({c \in DOMAIN calls :
        /\ calls[c].pc # "ready"
        /\ calls[c].op = op
        /\ calls[c].project.found
        /\ calls[c].project.value.id = p})

(* C24: once every concurrent createUpvote and createEmail call has returned,
   whatever the order in which the calls ran between their awaits, each
   project's upvotes counter is higher than before by the number of
   createUpvote calls made for it, and its emailsSent counter by the number
   of createEmail calls: no increment is lost. *)
C24_NoLostIncrement ==
    (\A c \in DOMAIN calls : calls[c].pc \in {"ready", "returned"}) =>
        \A p \in DOMAIN projects :
            /\ projects[p].upvotes
                  = constructor.projects[p].upvotes + C24_Calls("createUpvote", p)
            /\ projects[p].emailsSent
                  = constructor.projects[p].emailsSent + C24_Calls("createEmail", p)

\* two createUpvote calls for project 2 were suspended at the same time and
\* have returned: the status_change of the second one's crossing of the
\* threshold was recorded before the upvote activity of the first
C24_Witness ==
    /\ \A c \in DOMAIN calls : calls[c].pc = "returned"
    /\ C24_Calls("createUpvote", 2) = 2
    /\ projects[2].upvotes = constructor.projects[2].upvotes + 2
    /\ \E a \in DOMAIN activities :
          /\ activities[a].activityType = "status_change"
          /\ activities[a + 1].activityType = "upvote"
          /\ activities[a + 2].activityType = "upvote"

\* the completion request failed, carried no content, or content that does
\* not parse
C25_ModelCallFailed(completion) ==
    \/ completion.rejects
    \/ completion.choices = <<>>
    \/ completion.choices[1] \in {NULL, ""}
    \/ ~JSONparse(completion.choices[1]).ok

(* C25: generateEmailTemplate never raises and always returns a draft whose
   emailBody, emailSubject and emailTo are texts; when the completion request
   fails, carries no content or carries content that does not parse, the draft
   is the fallback template of the four arguments, whose emailTo is
   cityhall@cityname.gov for an issue type that is not one of the five. *)
C25_DraftOrFallback ==
    (ret.op = "generateEmailTemplate" /\ ret.settled) =>
        /\ ~ret.value.raised
        /\ ret.value.emailBody.type = "string"
        /\ ret.value.emailSubject.type = "string"
        /\ ret.value.emailTo.type = "string"
        /\ C25_ModelCallFailed(ret.completion) =>
              /\ ret.value = getFallbackEmailTemplate(ret.args[1], ret.args[2],
                                                      ret.args[3], ret.args[4])
              /\ ret.args[1] \notin issueTypeEnum =>
                    ret.value.emailTo.text = <<"cityhall@cityname.gov">>

\* every record of the collection is still stored afterwards, as it was
C26_Kept(m, mAfter) == \A k \in DOMAIN m : k \in DOMAIN mAfter /\ mAfter[k] = m[k]

(* C26: no step of the store removes a user, upvote, email, activity or
   comment or changes one of its fields, and no step removes a project. *)
C26_AppendOnly ==
    [][/\ C26_Kept(users, users')
       /\ C26_Kept(upvotes, upvotes')
       /\ C26_Kept(emails, emails')
       /\ C26_Kept(activities, activities')
       /\ C26_Kept(comments, comments')
       /\ DOMAIN projects \subseteq DOMAIN projects']_vars

\* updateProject has changed project 2 and recorded it, a later call has
\* appended another activity, and the constructor's activities are as they were
C26_Witness ==
    /\ projects[2].progressStatus = "completed"
    /\ \E k \in DOMAIN activities :
          /\ activities[k].activityType = "status_change"
          /\ k + 1 \in DOMAIN activities
    /\ \A k \in DOMAIN constructor.activities : activities[k] = constructor.activities[k]

(* C27: however the handlers of concurrent upvote requests interleave at
   their awaits, no two Upvote rows share a (projectId, ipAddress) pair, and a
   project's upvotes counter is higher than at the start by at most the
   number of addresses it was upvoted from (by at most 1 for requests from
   one address). *)
C27_OneUpvotePerAddress ==
    \A p \in DOMAIN projects :
        LET rows == {k \in DOMAIN upvotes : upvotes[k].projectId = p}
            addresses == {upvotes[k].ipAddress : k \in rows}
        IN /\ \A j, k \in rows : upvotes[j].ipAddress = upvotes[k].ipAddress => j = k
           /\ projects[p].upvotes <= constructor.projects[p].upvotes + Cardinality(addresses)

(* C28: updateProject(id, updates) with an id no project has returns
   undefined and leaves the whole store as it was; with an existing id it
   gives the project the values of the fields named in updates, keeps its
   other fields and every other project, and returns the stored record. *)
C28_UpdateReplacesNamedFields ==
    [][\A call \in ApiUpdateProjectCalls :
          ApiUpdateProject(call[1], call[2]) =>
             IF call[1] \notin DOMAIN projects
             THEN ~ret'.value.found /\ UNCHANGED storeVars
             ELSE /\ DOMAIN projects' = DOMAIN projects
                  /\ \A p \in (DOMAIN projects) \ {call[1]} : projects'[p] = projects[p]
                  /\ DOMAIN projects'[call[1]] = DOMAIN projects[call[1]]
                  /\ \A f \in DOMAIN projects[call[1]] :
                        projects'[call[1]][f] = IF f \in DOMAIN call[2] THEN call[2][f]
                                                ELSE projects[call[1]][f]
                  /\ ret'.value = [found |-> TRUE, value |-> projects'[call[1]]]]_vars

\* a call for the id no project has returned undefined, after a call that
\* set the upvotes of project 3
C28_Witness ==
    /\ ret.op = "updateProject"
    /\ ret.args[1] = 9
    /\ ~ret.value.found
    /\ projects[3].upvotes = 45
    /\ projects[3].emailsSent = constructor.projects[3].emailsSent

\* the parameter is present in the query and not empty
C29_Present(value) == value.type # "undefined" /\ ~(value.type = "string" /\ value.text = <<"">>)

(* C29: GET /api/projects answers with the result of one store query: when a
   non-empty search parameter is present, issueType and status are ignored
   (the answer is that of the request with the search alone) and the answer
   to a search text is the result of searchProjects; without search, when
   issueType is present status is ignored; then status; then all projects. *)
C29_QueryPrecedence ==
    ret.op = "GET /api/projects" =>
       LET search == ret.args[1]
           issueType == ret.args[2]
           status == ret.args[3]
           absent == [type |-> "undefined"]
       IN response.body =
             IF C29_Present(search)
             THEN IF search.type = "string"
                  THEN searchProjects(Store, search.text[1]).value
                  ELSE queryProjects(Store, search, absent, absent).value
             ELSE IF C29_Present(issueType)
             THEN IF issueType.type = "string"
                  THEN getProjectsByType(Store, issueType.text[1]).value
                  ELSE queryProjects(Store, search, issueType, absent).value
             ELSE IF C29_Present(status) /\ status.type = "string"
             THEN getProjectsByStatus(Store, status.text[1]).value
             ELSE getAllProjects(Store).value

(* C29, amended: the same with "present" read as "given once and not empty":
   the first of search, issueType and status that is a non-empty string
   decides the query, the others are ignored, and a parameter given more than
   once counts as absent. *)
C29_QueryPrecedenceOfStrings ==
    ret.op = "GET /api/projects" =>
       LET search == ret.args[1]
           issueType == ret.args[2]
           status == ret.args[3]
       IN response.body =
             IF IsNonEmptyString(search)
             THEN searchProjects(Store, search.text[1]).value
             ELSE IF IsNonEmptyString(issueType)
             THEN getProjectsByType(Store, issueType.text[1]).value
             ELSE IF IsNonEmptyString(status)
             THEN getProjectsByStatus(Store, status.text[1]).value
             ELSE getAllProjects(Store).value

\* the answer to search=oak with issueType=pothole: the sidewalk project on
\* Oak Street, which the intersection of the two filters would leave out
C29_Witness ==
    /\ ret.op = "GET /api/projects"
    /\ ret.args[1] = [type |-> "string", text |-> <<"oak">>]
    /\ ret.args[2] = [type |-> "string", text |-> <<"pothole">>]
    /\ response.status = 200
    /\ "body" \in DOMAIN response
    /\ response.body = searchProjects(Store, "oak").value
    /\ response.body # <<>>
    /\ \A i \in DOMAIN response.body : response.body[i].issueType # "pothole"
    /\ response.body # getAllProjects(Store).value

---------------------------------------------------------------------------

(* C30: in the issue submission wizard the step is success only when
   submittedProject holds a project the server created, and a step never
   takes the wizard from success to the email or details step unless it
   closes the modal: the completion of an email generation request started
   before the project was submitted included. *)
C30_SuccessUntilClosed ==
    [][/\ wizard'.currentStep = "success" =>
             /\ wizard'.submittedProject.found
             /\ wizard'.submittedProject.value.id \in DOMAIN projects'
             /\ projects'[wizard'.submittedProject.value.id] = wizard'.submittedProject.value
       /\ wizard.currentStep = "success" /\ wizard'.currentStep # "success" =>
             wizard.isOpen /\ ~wizard'.isOpen]_vars

====
